---- MODULE Spec2Model ----
(***************************************************************************)
(* Media acquisition of the space news generator: the per-source circuit   *)
(* breaker (api_manager.CircuitBreaker), the retry executor and the        *)
(* provider fallback search (api_manager.APIManager), the call log and the *)
(* media cache (database_client.DatabaseClient).                           *)
(***************************************************************************)
EXTENDS Integers, Sequences, FiniteSets, TLC

(* ---------------- program constants ---------------- *)

\* CircuitBreaker.__init__ defaults; APIManager builds CircuitBreaker().
failure_threshold == 5
timeout == 60

\* The provider names search_with_fallback and _search_source know.
Sources == {"nasa", "pixabay", "pexels", "unsplash", "giphy"}

\* "source not in self.failures": the dict has no entry for the key.
Absent == -1

(* ---------------- bounds of the model ---------------- *)

\* time.time() at construction, in whole seconds (far from the epoch 0).
StartTime == 2000
\* The clock stops advancing here.
MaxTime == 2120
\* Cap of a source's failure count.
MaxFailures == 6
\* Sources the breaker is driven with directly.
BreakerSources == {"nasa", "pixabay"}
\* Amounts of time that pass between two calls.
TickSteps == {30, 60}
\* Threads of the worker pool (MAX_WORKERS is at least min_workers = 2).
NumWorkers == 2
Workers == 1..NumWorkers
\* Sources the workers call the breaker for at the same time.
RaceSources == {"nasa"}
\* Workers that run searches (one: a search is followed call by call).
SearchWorkers == {1}
\* Searches begun in one run.
MaxSearches == 1
\* Searches begun in one run as long as every provider asked has been down.
MaxOutageSearches == 3
\* Times a provider changes its answer in one run.
MaxChanges == 1
\* Cap of a source's failure count during searches.
MaxSearchFailures == 9
\* The queries searched for (segment texts), as sequences of characters.
Queries == { <<" ", "M", "o", " ", " ", "o">> }
\* Amounts of time that pass between two searches.
SearchTicks == {60}
\* The clock stops advancing here during searches.
MaxSearchTime == 2090

\* Cap of the rows a run adds to the media cache.
MaxNewRows == 1
\* Cap of a row's use count.
MaxUseCount == 2
\* The clock stops advancing here while the client is called on its own.
MaxStoreTime == 2020
\* Amounts of time that pass between two calls of the client.
StoreTicks == {20}
\* Cap of the call records a run adds when the client is called on its own.
MaxNewLogRows == 2
\* The clock stops advancing here while the call log is written and read.
MaxLogTime == 2060
\* Amounts of time that pass between two calls on the call log.
LogTicks == {30}
\* The sources and the windows (in minutes) get_api_health is called with.
LogSources == {"nasa", "pexels"}
HealthWindows == {1, 30}
\* The queries the client looks up, the content hashes it saves.
StoreQueries == { <<" ", "M", "o", " ", " ", "o">>, <<"o">> }
Hashes == {2, 3}
\* The media it saves: query, source and quality score.
SaveInputs ==
    { [query |-> <<" ", "M", "o", " ", " ", "o">>, source |-> "nasa", quality_score |-> 3],
      [query |-> <<" ", "M", "o", " ", " ", "o">>, source |-> "pexels", quality_score |-> 5],
      [query |-> <<"o">>, source |-> "nasa", quality_score |-> 5] }

\* The machines the governor runs on: CPUs, available memory and free disk in
\* units of 512 MiB (MemoryUnitsPerGB to the GiB), and the arguments it is called with.
MaxCpu == 9
MaxMinWorkers == 3
MaxMaxWorkers == 8
\* the readings of available memory and of free disk: around 4GB, 8GB and 5GB
MemoryReadings == {0, 7, 8, 15, 16, 17}
DiskReadings == {0, 9, 10, 11}

\* The waits of wait_for_resources: its timeouts, the readings of CPU and
\* memory usage in percent, and a cap on the seconds it counts.
WaitTimeouts == {0, 12, 300}
CpuReadings == {90, 91}
MemoryPercents == {85, 86}
MaxElapsed == 305

\* The platforms the detector runs on, what a probe command can do, and the
\* quality settings the encoder arguments are asked with.
Systems == {"Linux", "Darwin", "Windows", "Java"}
ProbeOutcomes == {"found", "blank", "nonzero", "raises", "timeout"}
Crfs == {"18", "23"}
Presets == {"fast", "slow"}

\* The runs of the pipeline: the segments the transcription gives, and the
\* machines and configured max_workers the pool size is computed from.
NumSegments == 3
Machines ==
    { [cpus |-> 8, memory |-> 7, max_workers |-> 8],
      [cpus |-> 8, memory |-> 16, max_workers |-> 2] }
\* the free disk a run finds: 4.5GB or 5GB
RunDiskReadings == {9, 10}

\* The texts of the segments.
SegmentTexts == << <<"o">>, <<"M", "o">>, <<"m">>, <<"o", "o">> >>

\* Queries that differ in letter case and in blanks, saved and looked up.
KeyQueries ==
    { <<"M", "o">>, <<"m", "o">>, <<" ", "m", "o">>, <<"m", "o", " ">>,
      <<"m", " ", "o">>, <<"m", " ", " ", "o">>, <<"m", " ", " ", "O">>, <<" ">> }

VARIABLES
    failures,           \* CircuitBreaker.failures: source -> count, Absent = no key
    last_failure_time,  \* CircuitBreaker.last_failure_time: source -> time, Absent = no key
    now,                \* time.time()
    last_call,          \* history: the most recent breaker call and what it returned
    prev_call,          \* history: the breaker call before that one
    since_success,      \* history: record_failure calls since the last record_success (saturates at the threshold)
    streak,             \* history: record_failure calls since the last reset of the count (saturates at the threshold)
    reset_by,           \* history: what last reset the count: "none", "success", "timeout"
    worker,             \* the segment workers (threads of the pool): where each one is and its locals
    race,               \* history: per source, the breaker calls begun since no worker was inside one
    api_tracking,       \* the api_tracking table: the call log, in insertion order
    media_cache,        \* the media_cache table: a set of rows
    provider,           \* environment: how each provider responds at present
    changes,            \* environment: how often a provider's answer has changed
    searches,           \* number of search_with_fallback calls begun
    db_call,            \* history: the most recent DatabaseClient call made on its own, and the tables before it
    cpu_count,          \* ResourceManager.cpu_count
    gov_call,           \* history: the most recent ResourceManager call, what it read and what it returned
    waiting,            \* the frame of wait_for_resources: where it is, its timeout and its elapsed count
    gpu,                \* GPUDetector: the platform and its probes, gpu_info, the encoder arguments last returned
    MAX_WORKERS,        \* the module-level MAX_WORKERS of the pipeline
    pool,               \* the ThreadPoolExecutor of generate_media_for_segments and its threads
    segment,            \* the segments of the run: what became of each
    run                 \* __main__: where the run is, the render job row, what the run has done

breakerVars == <<failures, last_failure_time, now>>
histVars == <<last_call, prev_call, since_success, streak, reset_by, db_call>>
searchVars == <<api_tracking, media_cache, provider, changes, searches>>
pipelineVars == <<cpu_count, gov_call, waiting, gpu, MAX_WORKERS, pool, segment, run>>
vars == <<failures, last_failure_time, now, last_call, prev_call, since_success, streak, reset_by,
          worker, race, api_tracking, media_cache, provider, changes, searches, db_call,
          cpu_count, gov_call, waiting, gpu, MAX_WORKERS, pool, segment, run>>

Min(a, b) == IF a < b THEN a ELSE b

(* ---------------- CircuitBreaker ---------------- *)

\* self.last_failure_time.get(source, 0)
LastFailureOf(lft, s) == IF lft[s] = Absent THEN 0 ELSE lft[s]

\* elapsed = time.time() - self.last_failure_time.get(source, 0)
Elapsed(lft, t, s) == t - LastFailureOf(lft, s)

\* mutant: the threshold compared with > instead of >=
OverThreshold_strict(f, s) == f[s] # Absent /\ f[s] > failure_threshold

\* is_open, line 18: the count is at or over the threshold
OverThreshold(f, s) == f[s] # Absent /\ f[s] >= failure_threshold

\* is_open: the value returned
IsOpenRet(f, lft, t, s) == OverThreshold(f, s) /\ Elapsed(lft, t, s) < timeout

\* is_open: the branch that resets the counter (line 23)
IsOpenResets(f, lft, t, s) == OverThreshold(f, s) /\ ~(Elapsed(lft, t, s) < timeout)

\* mutant: the timed-out check leaves the count as it is
IsOpenFailures_noreset(f, lft, t, s) == f

\* mutant: the timed-out check leaves the count one below the threshold
IsOpenFailures_probe(f, lft, t, s) ==
    IF IsOpenResets(f, lft, t, s) THEN [f EXCEPT ![s] = failure_threshold - 1] ELSE f

\* is_open: self.failures after the call
IsOpenFailures(f, lft, t, s) ==
    IF IsOpenResets(f, lft, t, s) THEN [f EXCEPT ![s] = 0] ELSE f

\* mutant: a success takes one failure off the count
RecordSuccessFailures_decrement(f, s) ==
    [f EXCEPT ![s] = IF f[s] = Absent \/ f[s] = 0 THEN 0 ELSE f[s] - 1]

\* record_success: self.failures after the call
RecordSuccessFailures(f, s) == [f EXCEPT ![s] = 0]

\* record_failure: self.failures.get(source, 0) + 1
RecordFailureFailures(f, s) ==
    [f EXCEPT ![s] = (IF f[s] = Absent THEN 0 ELSE f[s]) + 1]

\* mutant: the time of the first failure is kept
RecordFailureStamp_keeps_first(lft, t, s) ==
    IF lft[s] = Absent THEN [lft EXCEPT ![s] = t] ELSE lft

\* record_failure: self.last_failure_time[source] = time.time()
RecordFailureStamp(lft, t, s) == [lft EXCEPT ![s] = t]

(* history kept next to each breaker call *)
CallRecord(o, s, r) ==
    [op |-> o, source |-> s, ret |-> r, at |-> now, before |-> failures[s]]

HistIsOpen(s) ==
    /\ last_call' = CallRecord("is_open", s, IsOpenRet(failures, last_failure_time, now, s))
    /\ prev_call' = last_call
    /\ IF IsOpenResets(failures, last_failure_time, now, s)
       THEN /\ streak' = [streak EXCEPT ![s] = 0]
            /\ reset_by' = [reset_by EXCEPT ![s] = "timeout"]
       ELSE UNCHANGED <<streak, reset_by>>
    /\ UNCHANGED <<since_success, db_call, pipelineVars>>

HistSuccess(s) ==
    /\ last_call' = CallRecord("record_success", s, FALSE)
    /\ prev_call' = last_call
    /\ since_success' = [since_success EXCEPT ![s] = 0]
    /\ streak' = [streak EXCEPT ![s] = 0]
    /\ reset_by' = [reset_by EXCEPT ![s] = "success"]
    /\ UNCHANGED <<db_call, pipelineVars>>

HistFailure(s) ==
    /\ last_call' = CallRecord("record_failure", s, FALSE)
    /\ prev_call' = last_call
    /\ since_success' = [since_success EXCEPT ![s] = Min(@ + 1, failure_threshold)]
    /\ streak' = [streak EXCEPT ![s] = Min(@ + 1, failure_threshold)]
    /\ UNCHANGED <<reset_by, db_call, pipelineVars>>

\* CircuitBreaker.is_open(source), called on its own
IsOpen(s) ==
    /\ failures' = IsOpenFailures(failures, last_failure_time, now, s)
    /\ HistIsOpen(s)
    /\ UNCHANGED <<last_failure_time, now, worker, race, searchVars>>

\* CircuitBreaker.record_success(source), called on its own
RecordSuccess(s) ==
    /\ failures' = RecordSuccessFailures(failures, s)
    /\ HistSuccess(s)
    /\ UNCHANGED <<last_failure_time, now, worker, race, searchVars>>

\* CircuitBreaker.record_failure(source), called on its own
RecordFailure(s) ==
    /\ failures[s] < MaxFailures
    /\ failures' = RecordFailureFailures(failures, s)
    /\ last_failure_time' = RecordFailureStamp(last_failure_time, now, s)
    /\ HistFailure(s)
    /\ UNCHANGED <<now, worker, race, searchVars>>

\* time passes between two calls
Tick(d) ==
    /\ now + d <= MaxTime
    /\ now' = now + d
    /\ UNCHANGED <<failures, last_failure_time, worker, race, searchVars>>
    /\ UNCHANGED <<histVars, pipelineVars>>

NoCall == [op |-> "none", source |-> "nasa", ret |-> FALSE, at |-> StartTime, before |-> Absent]

\* search_with_fallback returned None
None == [source |-> "none", query |-> <<>>]

\* a worker that is not inside any call
IdleWorker ==
    [pc |-> "idle", source |-> "nasa", tmp |-> 0,
     query |-> <<>>, prefer_video |-> FALSE, idx |-> 0, attempt |-> 0, wake |-> 0,
     result |-> None, raised |-> FALSE,
     \* history of the search in progress
     trail |-> <<>>, log_at_start |-> 0, looked |-> FALSE, matches |-> {},
     open_at_start |-> FALSE]
NoRace == [base |-> Absent, nfail |-> 0, checked |-> FALSE, could_reset |-> FALSE]
\* get_cached_media returned None
NoRow == [id |-> 0]
NoDbCall ==
    [op |-> "none", query |-> <<>>, source |-> "nasa", hash |-> 0, minutes |-> 0,
     ret |-> NoRow, before |-> {}, at |-> StartTime]

\* no ResourceManager call made so far
NoGovCall == [op |-> "none", min_workers |-> 0, max_workers |-> 0, memory |-> 0, disk |-> 0, ret |-> 0]
\* wait_for_resources is not running
NotWaiting == [pc |-> "idle", timeout |-> 0, elapsed |-> 0, waits |-> 0, polls |-> 0, throttled |-> FALSE]
\* no GPUDetector built so far
NoGpu ==
    [pc |-> "none", system |-> "Linux", probe |-> <<>>,
     gpu_info |-> [available |-> FALSE, type |-> "none", encoder |-> "none"],
     raised |-> FALSE, asked |-> FALSE, args |-> <<>>]
\* no executor: generate_media_for_segments is not running
NoPool == [pc |-> "none", threads |-> 0, queue |-> <<>>, next |-> 1, collected |-> {}, raised |-> FALSE]
\* __main__ has not started
NotRun ==
    [pc |-> "import", job |-> [status |-> "none", current_step |-> "none", error_log |-> <<>>],
     disk_checks |-> 0, step |-> 0, returned |-> <<>>, raised |-> FALSE, exit_code |-> 0]

\* the pipeline is not running: the state of the parts taken on their own
PipelineAtRest ==
    /\ cpu_count = 4
    /\ gov_call = NoGovCall
    /\ waiting = NotWaiting
    /\ gpu = NoGpu
    /\ MAX_WORKERS = 2
    /\ pool = NoPool
    /\ segment = <<>>
    /\ run = NotRun

\* CircuitBreaker.__init__: both dicts empty
Init ==
    /\ failures = [s \in Sources |-> Absent]
    /\ last_failure_time = [s \in Sources |-> Absent]
    /\ now = StartTime
    /\ last_call = NoCall
    /\ prev_call = NoCall
    /\ since_success = [s \in Sources |-> 0]
    /\ streak = [s \in Sources |-> 0]
    /\ reset_by = [s \in Sources |-> "none"]
    /\ worker = [w \in Workers |-> IdleWorker]
    /\ race = [s \in Sources |-> NoRace]
    /\ api_tracking = <<>>
    /\ media_cache = {}
    /\ provider = [s \in Sources |-> "unset"]
    /\ changes = 0
    /\ searches = 0
    /\ db_call = NoDbCall
    /\ PipelineAtRest

(* The breaker driven call by call by one thread. *)
NextBreaker ==
    \/ \E s \in BreakerSources : IsOpen(s)
    \/ \E s \in BreakerSources : RecordSuccess(s)
    \/ \E s \in BreakerSources : RecordFailure(s)
    \/ \E d \in TickSteps : Tick(d)

SpecBreaker == Init /\ [][NextBreaker]_vars

(* ---------------- DatabaseClient: queries, media cache, call log ---------------- *)

\* str.lower() on the characters the queries are written with
LowerChar(c) == CASE c = "M" -> "m" [] c = "O" -> "o" [] OTHER -> c

\* query.lower()
Lower(q) == [i \in 1..Len(q) |-> LowerChar(q[i])]

\* str.split(): the maximal runs of non-blank characters, in order
RECURSIVE SplitFrom(_, _, _)
SplitFrom(q, i, word) ==
    IF i > Len(q)
    THEN (IF word = <<>> THEN <<>> ELSE <<word>>)
    ELSE IF q[i] = " "
         THEN (IF word = <<>> THEN <<>> ELSE <<word>>) \o SplitFrom(q, i + 1, <<>>)
         ELSE SplitFrom(q, i + 1, Append(word, q[i]))

Split(q) == SplitFrom(q, 1, <<>>)

\* " ".join(words)
RECURSIVE Join(_)
Join(words) ==
    IF words = <<>> THEN <<>>
    ELSE IF Len(words) = 1 THEN words[1]
    ELSE words[1] \o <<" ">> \o Join(Tail(words))

\* _normalize_query: " ".join(query.lower().split())
NormalizeQuery(q) == Join(Split(Lower(q)))

\* mutant: the lookup does not look at the expiry
CacheMatches_any_expiry(cache, q, t) ==
    LET normalized_query == NormalizeQuery(q)
    IN {m \in cache : m.query = normalized_query}

\* get_cached_media, line 21 (source is None): the rows of the query that have not expired
CacheMatches(cache, q, t) ==
    LET normalized_query == NormalizeQuery(q)
    IN {m \in cache : m.query = normalized_query /\ m.expires_at > t}

\* mutant: the rows are ordered by use_count first, then by quality_score
CacheFirst_by_use_count(cache, q, t) ==
    LET rows == CacheMatches(cache, q, t)
    IN {m \in rows :
           \A o \in rows :
               \/ m.use_count > o.use_count
               \/ (m.use_count = o.use_count /\ m.quality_score >= o.quality_score)}

\* get_cached_media, line 26: order by quality_score desc, use_count desc, limit 1;
\* rows equal in both come in the store's order, any of them may be first
CacheFirst(cache, q, t) ==
    LET rows == CacheMatches(cache, q, t)
    IN {m \in rows :
           \A o \in rows :
               \/ m.quality_score > o.quality_score
               \/ (m.quality_score = o.quality_score /\ m.use_count >= o.use_count)}

\* mutant: the hit refreshes last_used_at and leaves use_count
CacheTouch_keeps_count(cache, m, t) ==
    (cache \ {m}) \cup {[m EXCEPT !.last_used_at = t]}

\* get_cached_media, lines 30-33: the update of the row returned
CacheTouch(cache, m, t) ==
    (cache \ {m}) \cup {[m EXCEPT !.last_used_at = t, !.use_count = @ + 1]}

\* mutant: a call that repeats the outcome of the last record of the source is not recorded again
TrackApiCall_merges(log, s, q, ok, t) ==
    IF log # <<>> /\ log[Len(log)].source = s /\ log[Len(log)].success = ok
    THEN log
    ELSE Append(log, [source |-> s, query |-> q, success |-> ok, created_at |-> t])

\* track_api_call: one row appended; created_at is the time of the insert
TrackApiCall(log, s, q, ok, t) ==
    Append(log, [source |-> s, query |-> q, success |-> ok, created_at |-> t])

\* mutant: the rows of the source are counted whatever their age
HealthRows_all_time(log, s, minutes, t) ==
    {i \in 1..Len(log) : log[i].source = s}

\* get_api_health, line 81: the rows of the source newer than the cutoff
HealthRows(log, s, minutes, t) ==
    {i \in 1..Len(log) : log[i].source = s /\ log[i].created_at > t - minutes * 60}

\* mutant: a source without a record in the window has success rate 0
GetApiHealth_unknown_is_poor(log, s, minutes, t) ==
    LET rows == HealthRows(log, s, minutes, t)
    IN [num |-> Cardinality({i \in rows : log[i].success}),
        den |-> IF rows = {} THEN 1 ELSE Cardinality(rows),
        total_calls |-> Cardinality(rows)]

\* get_api_health: success_rate as the fraction successful_calls / total_calls
\* (1.0 = 1/1 when no row matches) and total_calls
GetApiHealth(log, s, minutes, t) ==
    LET rows == HealthRows(log, s, minutes, t)
    IN IF rows = {}
       THEN [num |-> 1, den |-> 1, total_calls |-> 0]
       ELSE [num |-> Cardinality({i \in rows : log[i].success}),
             den |-> Cardinality(rows),
             total_calls |-> Cardinality(rows)]

\* search_with_fallback, line 89: health["success_rate"] < 0.3
health_minutes == 30
BelowFloor(h) == 10 * h.num < 3 * h.den

(* ---------------- the breaker shared by the pool's threads ---------------- *)
(* generate_media_for_segments submits process_segment to a ThreadPoolExecutor; *)
(* every thread reaches the one CircuitBreaker of api_manager, which takes no   *)
(* lock: a call is a series of reads and writes of the shared dicts, and        *)
(* another thread may run between any two of them.                              *)

InCall(w) == worker[w].pc # "idle"
InCallOn(w, s) == InCall(w) /\ worker[w].source = s
Quiescent(s) == \A w \in Workers : ~InCallOn(w, s)
InRecordFailure(w, s) == InCallOn(w, s) /\ worker[w].pc \in {"rf_read", "rf_write", "rf_stamp"}

\* history: the calls begun on s since it was last quiescent
RaceNow(s) ==
    IF Quiescent(s)
    THEN [base |-> failures[s], nfail |-> 0, checked |-> FALSE,
          could_reset |-> IsOpenResets(failures, last_failure_time, now, s)]
    ELSE race[s]

\* history: the call joins those begun since the source was last quiescent
RaceJoin(s, o) ==
    race' = [race EXCEPT ![s] =
               IF o = "record_failure" THEN [RaceNow(s) EXCEPT !.nfail = @ + 1]
                                       ELSE [RaceNow(s) EXCEPT !.checked = TRUE]]

\* a thread enters record_failure(source)
BeginRecordFailure(w, s) ==
    /\ worker[w].pc = "idle"
    /\ (IF failures[s] = Absent THEN 0 ELSE failures[s])
         + Cardinality({v \in Workers : InRecordFailure(v, s)}) < MaxFailures
    /\ RaceNow(s).nfail < NumWorkers
    /\ worker' = [worker EXCEPT ![w] = [IdleWorker EXCEPT !.pc = "rf_read", !.source = s]]
    /\ RaceJoin(s, "record_failure")
    /\ UNCHANGED <<failures, last_failure_time, now, searchVars>>
    /\ UNCHANGED <<histVars, pipelineVars>>

\* record_failure, line 31, right side: self.failures.get(source, 0) + 1
RfRead(w) ==
    /\ worker[w].pc = "rf_read"
    /\ worker' = [worker EXCEPT ![w].pc = "rf_write",
                                ![w].tmp = RecordFailureFailures(failures, worker[w].source)[worker[w].source]]
    /\ UNCHANGED <<failures, last_failure_time, now, race, searchVars>>
    /\ UNCHANGED <<histVars, pipelineVars>>

\* record_failure, line 31, the store: self.failures[source] = <value computed>
RfWrite(w) ==
    /\ worker[w].pc = "rf_write"
    /\ failures' = [failures EXCEPT ![worker[w].source] = worker[w].tmp]
    /\ worker' = [worker EXCEPT ![w].pc = "rf_stamp"]
    /\ UNCHANGED <<last_failure_time, now, race, searchVars>>
    /\ UNCHANGED <<histVars, pipelineVars>>

\* record_failure, line 32: self.last_failure_time[source] = time.time()
RfStamp(w) ==
    /\ worker[w].pc = "rf_stamp"
    /\ last_failure_time' = RecordFailureStamp(last_failure_time, now, worker[w].source)
    /\ worker' = [worker EXCEPT ![w] = IdleWorker]
    /\ UNCHANGED <<failures, now, race, searchVars>>
    /\ UNCHANGED <<histVars, pipelineVars>>

\* a thread enters is_open(source)
BeginIsOpen(w, s) ==
    /\ worker[w].pc = "idle"
    /\ worker' = [worker EXCEPT ![w] = [IdleWorker EXCEPT !.pc = "io_count", !.source = s]]
    /\ RaceJoin(s, "is_open")
    /\ UNCHANGED <<failures, last_failure_time, now, searchVars>>
    /\ UNCHANGED <<histVars, pipelineVars>>

\* is_open, lines 15-18: the reads of self.failures; returns False under the threshold
IoCount(w) ==
    /\ worker[w].pc = "io_count"
    /\ worker' = [worker EXCEPT ![w] =
                    IF OverThreshold(failures, worker[w].source)
                    THEN [@ EXCEPT !.pc = "io_time"]
                    ELSE IdleWorker]
    /\ UNCHANGED <<failures, last_failure_time, now, race, searchVars>>
    /\ UNCHANGED <<histVars, pipelineVars>>

\* is_open, lines 19-21: the read of the clock and of last_failure_time; returns True in time
IoTime(w) ==
    /\ worker[w].pc = "io_time"
    /\ worker' = [worker EXCEPT ![w] =
                    IF Elapsed(last_failure_time, now, worker[w].source) < timeout
                    THEN IdleWorker
                    ELSE [@ EXCEPT !.pc = "io_reset"]]
    /\ UNCHANGED <<failures, last_failure_time, now, race, searchVars>>
    /\ UNCHANGED <<histVars, pipelineVars>>

\* is_open, line 23: self.failures[source] = 0, then returns False
IoReset(w) ==
    /\ worker[w].pc = "io_reset"
    /\ failures' = [failures EXCEPT ![worker[w].source] = 0]
    /\ worker' = [worker EXCEPT ![w] = IdleWorker]
    /\ UNCHANGED <<last_failure_time, now, race, searchVars>>
    /\ UNCHANGED <<histVars, pipelineVars>>

\* time passes while no thread is inside a breaker call
TickQuiet(d) ==
    /\ \A w \in Workers : ~InCall(w)
    /\ Tick(d)

NextRace ==
    \/ \E w \in Workers, s \in RaceSources : BeginRecordFailure(w, s)
    \/ \E w \in Workers : RfRead(w)
    \/ \E w \in Workers : RfWrite(w)
    \/ \E w \in Workers : RfStamp(w)
    \/ \E w \in Workers, s \in RaceSources : BeginIsOpen(w, s)
    \/ \E w \in Workers : IoCount(w)
    \/ \E w \in Workers : IoTime(w)
    \/ \E w \in Workers : IoReset(w)
    \/ \E d \in TickSteps : TickQuiet(d)

SpecRace == Init /\ [][NextRace]_vars

(* ---------------- APIManager: search_with_fallback and retry_with_backoff ---------------- *)

\* retry_with_backoff defaults
max_retries == 3
base_delay == 1

\* mutant: prefer_video only moves pixabay to the front of the default list
SearchOrder_reordered(prefer_video) ==
    IF prefer_video THEN <<"pixabay", "nasa", "pexels", "unsplash">>
                    ELSE <<"nasa", "pixabay", "pexels", "unsplash">>

\* search_with_fallback, lines 80-82
SearchOrder(prefer_video) ==
    IF prefer_video THEN <<"pixabay", "nasa", "pexels", "giphy">>
                    ELSE <<"nasa", "pixabay", "pexels", "unsplash">>

\* what a provider's _search_* returns for a query when it has an asset
ProviderUrl(s, q) == [source |-> s, query |-> q]

\* the answers of a provider call: an asset URL, nothing (None), an exception
Answers == {"url", "empty", "down"}

\* what requests.get and the provider give back: an asset, an empty result
\* list, no connection, a status other than 200, a body that is not JSON, a
\* first entry that lacks the URL field
Responses == {"asset", "no_results", "network_error", "non_2xx", "not_json", "entry_without_url"}
\* the responses the searches are followed with: one for each answer
SearchResponses == {"asset", "no_results", "network_error"}
\* the responses the spec calls transient provider failures
TransientFailures == {"network_error", "non_2xx", "not_json", "entry_without_url"}

\* _search_nasa .. _search_giphy: the answer made of a response.
\* requests.get raises without a connection; a status other than 200 fails
\* the test "r.status_code == 200" and falls through to "return None"; r.json()
\* raises on a body that is not JSON; an entry without the URL field gives
\* None where the field is read with .get (nasa "links", pixabay
\* "largeImageURL"/"videos") and a KeyError where it is subscripted.
SearchOutcome(s, r) ==
    CASE r = "asset" -> "url"
      [] r = "no_results" -> "empty"
      [] r = "network_error" -> "down"
      [] r = "non_2xx" -> "empty"
      [] r = "not_json" -> "down"
      [] r = "entry_without_url" -> IF s \in {"nasa", "pixabay"} THEN "empty" ELSE "down"

Max(a, b) == IF a > b THEN a ELSE b
RECURSIVE Pow2(_)
Pow2(n) == IF n = 0 THEN 1 ELSE 2 * Pow2(n - 1)

CurrentSource(wr) == SearchOrder(wr.prefer_video)[wr.idx]
Logged(wr, e) == [wr EXCEPT !.trail = Append(@, [source |-> CurrentSource(wr), event |-> e])]

\* mutant: after the last source the loop starts over with the first
NextProvider_starts_over(wr) ==
    IF wr.idx < Len(SearchOrder(wr.prefer_video))
    THEN [wr EXCEPT !.idx = @ + 1, !.pc = "gate", !.attempt = 0]
    ELSE [wr EXCEPT !.idx = 1, !.pc = "gate", !.attempt = 0]

\* the for loop of line 84 goes on: the next source, or line 99 (return None)
NextProvider(wr) ==
    IF wr.idx < Len(SearchOrder(wr.prefer_video))
    THEN [wr EXCEPT !.idx = @ + 1, !.pc = "gate", !.attempt = 0]
    ELSE [wr EXCEPT !.pc = "returned", !.result = None]

\* mutant: a cache hit does not return, the providers are searched all the same
OnCacheHit_falls_through(wr, m) == [wr EXCEPT !.pc = "gate", !.idx = 1]

\* search_with_fallback, lines 77-78: if cached: return cached["media_url"]
OnCacheHit(wr, m) == [wr EXCEPT !.pc = "returned", !.result = m.media_url]

\* mutant: an open circuit does not make the loop skip the source
OnGate_ignores_open(wr, open) == [Logged(wr, IF open THEN "open" ELSE "closed") EXCEPT !.pc = "health"]

\* search_with_fallback, lines 85-86: if is_open(source): continue
OnGate(wr, open) ==
    IF open THEN NextProvider(Logged(wr, "open"))
            ELSE [Logged(wr, "closed") EXCEPT !.pc = "health"]

\* mutant: a poor success rate does not make the loop skip the source
OnHealth_ignores_floor(wr, h) ==
    [Logged(wr, IF BelowFloor(h) THEN "unhealthy" ELSE "healthy") EXCEPT !.pc = "attempt", !.attempt = 0]

\* search_with_fallback, lines 88-90: if health["success_rate"] < 0.3: continue
OnHealth(wr, h) ==
    IF BelowFloor(h) THEN NextProvider(Logged(wr, "unhealthy"))
                     ELSE [Logged(wr, "healthy") EXCEPT !.pc = "attempt", !.attempt = 0]

\* mutant: a URL found does not end the loop
OnAnswer_keeps_searching(wr, a) ==
    IF a = "url" THEN NextProvider([Logged(wr, "url") EXCEPT !.result = ProviderUrl(CurrentSource(wr), wr.query)])
                 ELSE NextProvider(Logged(wr, "empty"))

\* retry_with_backoff, line 60, then search_with_fallback, lines 93-95:
\* the attempt returned; if url: return url, else the loop goes on
OnAnswer(wr, a) ==
    IF a = "url"
    THEN [Logged(wr, "url") EXCEPT !.pc = "returned", !.result = ProviderUrl(CurrentSource(wr), wr.query)]
    ELSE NextProvider(Logged(wr, "empty"))

\* mutant: the delay does not grow with the attempt
OnFailure_flat_delay(wr, t) ==
    IF wr.attempt = max_retries - 1
    THEN [Logged(wr, "fail") EXCEPT !.pc = "raised"]
    ELSE [Logged(wr, "fail") EXCEPT !.pc = "sleep", !.wake = t + base_delay]

\* retry_with_backoff, lines 67-71: the last attempt re-raises, the others sleep
OnFailure(wr, t) ==
    IF wr.attempt = max_retries - 1
    THEN [Logged(wr, "fail") EXCEPT !.pc = "raised"]
    ELSE [Logged(wr, "fail") EXCEPT !.pc = "sleep", !.wake = t + base_delay * Pow2(wr.attempt)]

\* mutant: the exception of an exhausted provider leaves search_with_fallback
OnRaise_propagates(wr) == [Logged(wr, "exhausted") EXCEPT !.pc = "returned", !.raised = TRUE]

\* search_with_fallback, lines 96-97: except: continue
OnRaise(wr) == NextProvider(Logged(wr, "exhausted"))

\* environment: no provider asked so far has answered
Outage ==
    \A s \in Sources :
        provider[s] \in {"unset"} \cup {r \in Responses : SearchOutcome(s, r) = "down"}

\* search_with_fallback(query, prefer_video) is entered: its frame
SearchFrame(q, pv) ==
    [IdleWorker EXCEPT !.pc = "cached", !.query = q, !.prefer_video = pv,
                       !.log_at_start = Len(api_tracking),
                       !.open_at_start =
                           \A i \in 1..Len(SearchOrder(pv)) :
                               failures[SearchOrder(pv)[i]] >= failure_threshold]

\* a segment worker calls search_with_fallback(query, prefer_video)
StartSearch(w, q, pv) ==
    /\ worker[w].pc = "idle"
    /\ searches < MaxSearches \/ (searches < MaxOutageSearches /\ Outage)
    /\ searches' = searches + 1
    /\ worker' = [worker EXCEPT ![w] = SearchFrame(q, pv)]
    /\ UNCHANGED <<breakerVars, race, api_tracking, media_cache, provider, changes>>
    /\ UNCHANGED <<histVars, pipelineVars>>

\* search_with_fallback, lines 76-78: self.db.get_cached_media(query)
GetCachedMedia(w) ==
    /\ worker[w].pc = "cached"
    /\ LET wr == [worker[w] EXCEPT !.looked = TRUE,
                                   !.matches = CacheMatches(media_cache, worker[w].query, now)]
       IN IF CacheFirst(media_cache, wr.query, now) = {}
          THEN /\ worker' = [worker EXCEPT ![w] = [wr EXCEPT !.pc = "gate", !.idx = 1]]
               /\ UNCHANGED media_cache
          ELSE \E m \in CacheFirst(media_cache, wr.query, now) :
                  /\ media_cache' = CacheTouch(media_cache, m, now)
                  /\ worker' = [worker EXCEPT ![w] = OnCacheHit(wr, m)]
    /\ UNCHANGED <<breakerVars, race, api_tracking, provider, changes, searches>>
    /\ UNCHANGED <<histVars, pipelineVars>>

\* search_with_fallback, lines 85-86: self.circuit_breaker.is_open(source)
Gate(w) ==
    /\ worker[w].pc = "gate"
    /\ LET s == CurrentSource(worker[w])
       IN /\ failures' = IsOpenFailures(failures, last_failure_time, now, s)
          /\ worker' = [worker EXCEPT ![w] =
                          OnGate(worker[w], IsOpenRet(failures, last_failure_time, now, s))]
    /\ UNCHANGED <<last_failure_time, now, race, searchVars>>
    /\ UNCHANGED <<histVars, pipelineVars>>

\* search_with_fallback, lines 88-90: self.db.get_api_health(source, minutes=30)
Health(w) ==
    /\ worker[w].pc = "health"
    /\ worker' = [worker EXCEPT ![w] =
                    OnHealth(worker[w],
                             GetApiHealth(api_tracking, CurrentSource(worker[w]), health_minutes, now))]
    /\ UNCHANGED <<breakerVars, race, searchVars>>
    /\ UNCHANGED <<histVars, pipelineVars>>

\* mutant: a call that returns None is handled like a call that raised
CallRaised_or_empty(a) == a # "url"

\* retry_with_backoff, lines 52-62: the try block is left by the return of
\* line 60 unless func() raised
CallRaised(a) == a = "down"

\* one pass of the loop of retry_with_backoff (lines 51-71) around the provider
\* call of _search_source, the provider responding r: the call, the call
\* record, the breaker update
AttemptPass(w, r) ==
    /\ worker[w].pc = "attempt"
    /\ LET s == CurrentSource(worker[w])
           a == SearchOutcome(s, r)
       IN IF CallRaised(a)
          THEN /\ failures[s] < MaxSearchFailures
               /\ api_tracking' = TrackApiCall(api_tracking, s, <<>>, FALSE, now)
               /\ failures' = RecordFailureFailures(failures, s)
               /\ last_failure_time' = RecordFailureStamp(last_failure_time, now, s)
               /\ worker' = [worker EXCEPT ![w] = OnFailure(worker[w], now)]
          ELSE /\ api_tracking' = TrackApiCall(api_tracking, s, <<>>, TRUE, now)
               /\ failures' = RecordSuccessFailures(failures, s)
               /\ worker' = [worker EXCEPT ![w] = OnAnswer(worker[w], a)]
               /\ UNCHANGED last_failure_time
    /\ UNCHANGED <<now, race, media_cache, searches>>
    /\ UNCHANGED <<histVars, pipelineVars>>

\* an attempt; the provider responds r: as it did last time, or differently
\* (a change)
Attempt(w, r) ==
    /\ worker[w].pc = "attempt"
    /\ LET s == CurrentSource(worker[w])
       IN /\ provider[s] \in {"unset", r} \/ changes < MaxChanges
          /\ provider' = [provider EXCEPT ![s] = r]
          /\ changes' = IF provider[s] \in {"unset", r} THEN changes ELSE changes + 1
    /\ AttemptPass(w, r)

\* retry_with_backoff, lines 70-71: time.sleep(delay), then the next attempt
Wake(w) ==
    /\ worker[w].pc = "sleep"
    /\ Max(now, worker[w].wake) <= MaxSearchTime
    /\ now' = Max(now, worker[w].wake)
    /\ worker' = [worker EXCEPT ![w].pc = "attempt", ![w].attempt = @ + 1]
    /\ UNCHANGED <<failures, last_failure_time, race, searchVars>>
    /\ UNCHANGED <<histVars, pipelineVars>>

\* the exception raised by the last attempt reaches search_with_fallback (line 96)
Caught(w) ==
    /\ worker[w].pc = "raised"
    /\ worker' = [worker EXCEPT ![w] = OnRaise(worker[w])]
    /\ UNCHANGED <<breakerVars, race, searchVars>>
    /\ UNCHANGED <<histVars, pipelineVars>>

\* the caller has the result of the search
Finish(w) ==
    /\ worker[w].pc = "returned"
    /\ worker' = [worker EXCEPT ![w] = IdleWorker]
    /\ UNCHANGED <<breakerVars, race, searchVars>>
    /\ UNCHANGED <<histVars, pipelineVars>>

(* what the store holds when a run starts: the tables outlive the runs *)
LogRow(s, ok, t) == [source |-> s, query |-> <<>>, success |-> ok, created_at |-> t]
\* three successes of every source, a minute ago
HealthyLog ==
    [i \in 1..15 |->
        LogRow(<<"nasa", "pixabay", "pexels", "unsplash", "giphy">>[((i - 1) % 5) + 1], TRUE, StartTime - 60)]
\* nasa at 1 of 4, pixabay at 3 of 10, pexels with failures about to leave the window
PoorLog ==
    <<LogRow("nasa", TRUE, StartTime - 90), LogRow("nasa", FALSE, StartTime - 80),
      LogRow("nasa", FALSE, StartTime - 80), LogRow("nasa", FALSE, StartTime - 80),
      LogRow("pixabay", TRUE, StartTime - 90), LogRow("pixabay", TRUE, StartTime - 90),
      LogRow("pixabay", TRUE, StartTime - 90), LogRow("pixabay", FALSE, StartTime - 80),
      LogRow("pixabay", FALSE, StartTime - 80), LogRow("pixabay", FALSE, StartTime - 80),
      LogRow("pixabay", FALSE, StartTime - 70), LogRow("pixabay", FALSE, StartTime - 70),
      LogRow("pixabay", FALSE, StartTime - 70), LogRow("pixabay", FALSE, StartTime - 70),
      LogRow("pexels", FALSE, StartTime - health_minutes * 60 + 45),
      LogRow("pexels", FALSE, StartTime - health_minutes * 60 + 45)>>
InitLogs == {<<>>, HealthyLog, PoorLog}

CacheRow(i, q, s, quality, uses, expires) ==
    [id |-> i, query |-> q, source |-> s, media_url |-> ProviderUrl(s, q), file_hash |-> i,
     quality_score |-> quality, use_count |-> uses, last_used_at |-> StartTime - 60,
     expires_at |-> expires]
InitCaches ==
    { {},
      {CacheRow(1, <<"m", "o", " ", "o">>, "nasa", 5, 0, StartTime + 30),
       CacheRow(2, <<"m", "o", " ", "o">>, "pexels", 5, 2, StartTime - 10)} }

\* time passes between two searches
SearchTick(d) ==
    /\ now + d <= MaxSearchTime
    /\ \A w \in SearchWorkers : worker[w].pc = "idle"
    /\ Tick(d)

InitSearch ==
    /\ failures = [s \in Sources |-> Absent]
    /\ last_failure_time = [s \in Sources |-> Absent]
    /\ now = StartTime
    /\ last_call = NoCall
    /\ prev_call = NoCall
    /\ since_success = [s \in Sources |-> 0]
    /\ streak = [s \in Sources |-> 0]
    /\ reset_by = [s \in Sources |-> "none"]
    /\ worker = [w \in Workers |-> IdleWorker]
    /\ race = [s \in Sources |-> NoRace]
    /\ api_tracking \in InitLogs
    /\ media_cache \in InitCaches
    /\ provider = [s \in Sources |-> "unset"]
    /\ changes = 0
    /\ searches = 0
    /\ db_call = NoDbCall
    /\ PipelineAtRest

NextSearch ==
    \/ \E w \in SearchWorkers, q \in Queries, pv \in BOOLEAN : StartSearch(w, q, pv)
    \/ \E w \in SearchWorkers : GetCachedMedia(w)
    \/ \E w \in SearchWorkers : Gate(w)
    \/ \E w \in SearchWorkers : Health(w)
    \/ \E w \in SearchWorkers, r \in SearchResponses : Attempt(w, r)
    \/ \E w \in SearchWorkers : Wake(w)
    \/ \E w \in SearchWorkers : Caught(w)
    \/ \E w \in SearchWorkers : Finish(w)
    \/ \E d \in SearchTicks : SearchTick(d)

Spec == InitSearch /\ [][NextSearch]_vars

(* The searches with every kind of response a provider can give, on a store *)
(* that is empty when the run starts, one search right after the other.      *)
InitResponses ==
    /\ InitSearch
    /\ api_tracking = <<>>
    /\ media_cache = {}

NextResponses ==
    \/ \E w \in SearchWorkers, q \in Queries : StartSearch(w, q, FALSE)
    \/ \E w \in SearchWorkers : GetCachedMedia(w)
    \/ \E w \in SearchWorkers : Gate(w)
    \/ \E w \in SearchWorkers : Health(w)
    \/ \E w \in SearchWorkers, r \in Responses : Attempt(w, r)
    \/ \E w \in SearchWorkers : Wake(w)
    \/ \E w \in SearchWorkers : Caught(w)
    \/ \E w \in SearchWorkers : Finish(w)

SpecResponses == InitResponses /\ [][NextResponses]_vars

(* ---------------- DatabaseClient called on its own: the media cache ---------------- *)

\* save_media_cache, line 60: timedelta(days=30), in seconds
retention_days == 30
DaySeconds == 86400

\* save_media_cache, line 45: the rows that have the hash
CacheWithHash(cache, h) == {m \in cache : m.file_hash = h}

\* the id the table gives the next row inserted: ids grow with the insertions
NextId(cache) ==
    IF cache = {} THEN 1
    ELSE 1 + (CHOOSE n \in {m.id : m \in cache} : \A m \in cache : m.id <= n)

\* mutant: the row inserted has no retention, it expires as it is written
NewCacheRow_expires_now(cache, q, s, h, quality, t) ==
    [id |-> NextId(cache), query |-> NormalizeQuery(q), source |-> s,
     media_url |-> ProviderUrl(s, q), file_hash |-> h, quality_score |-> quality,
     use_count |-> 0, last_used_at |-> t, expires_at |-> t]

\* mutant: the row is stored under the query as given
NewCacheRow_raw_query(cache, q, s, h, quality, t) ==
    [id |-> NextId(cache), query |-> q, source |-> s,
     media_url |-> ProviderUrl(s, q), file_hash |-> h, quality_score |-> quality,
     use_count |-> 0, last_used_at |-> t, expires_at |-> t + retention_days * DaySeconds]

\* save_media_cache, lines 50-63: the row inserted (never used, never looked up)
NewCacheRow(cache, q, s, h, quality, t) ==
    [id |-> NextId(cache), query |-> NormalizeQuery(q), source |-> s,
     media_url |-> ProviderUrl(s, q), file_hash |-> h, quality_score |-> quality,
     use_count |-> 0, last_used_at |-> t, expires_at |-> t + retention_days * DaySeconds]

\* mutant: a row counts as existing only if it has the hash and the query
SaveMediaCacheTable_per_query(cache, q, s, h, quality, t) ==
    IF {m \in CacheWithHash(cache, h) : m.query = NormalizeQuery(q)} # {}
    THEN cache
    ELSE cache \cup {NewCacheRow(cache, q, s, h, quality, t)}

\* save_media_cache: the table after the call
SaveMediaCacheTable(cache, q, s, h, quality, t) ==
    IF CacheWithHash(cache, h) # {}
    THEN cache
    ELSE cache \cup {NewCacheRow(cache, q, s, h, quality, t)}

\* save_media_cache: what it may return, existing.data[0] (lines 47-48) or the
\* row inserted (line 64), by id
SaveMediaCacheRet(cache, q, s, h, quality, t) ==
    IF CacheWithHash(cache, h) # {}
    THEN {[id |-> m.id] : m \in CacheWithHash(cache, h)}
    ELSE {[id |-> NextId(cache)]}

\* mutant: the sweep deletes the rows that have not expired
CleanupExpiredTable_flipped(cache, t) == {m \in cache : ~(m.expires_at > t)}

\* cleanup_expired_cache: delete().lt("expires_at", now)
CleanupExpiredTable(cache, t) == {m \in cache : ~(m.expires_at < t)}

\* the rows saved since the run started
NewRows(cache) == {m \in cache : m.expires_at >= StartTime + retention_days * DaySeconds}

DbCall(o, q, s, h, r) ==
    [op |-> o, query |-> q, source |-> s, hash |-> h, minutes |-> 0,
     ret |-> r, before |-> media_cache, at |-> now]

\* DatabaseClient.save_media_cache(query, source, ..., file_hash, ..., quality_score)
SaveMediaCache(q, s, h, quality) ==
    /\ CacheWithHash(media_cache, h) # {} \/ Cardinality(NewRows(media_cache)) < MaxNewRows
    /\ media_cache' = SaveMediaCacheTable(media_cache, q, s, h, quality, now)
    /\ \E r \in SaveMediaCacheRet(media_cache, q, s, h, quality, now) :
          db_call' = DbCall("save_media_cache", q, s, h, r)
    /\ UNCHANGED <<breakerVars, worker, race, api_tracking, provider, changes, searches>>
    /\ UNCHANGED <<last_call, prev_call, since_success, streak, reset_by, pipelineVars>>

\* DatabaseClient.get_cached_media(query)
LookupCachedMedia(q) ==
    /\ LET first == CacheFirst(media_cache, q, now)
       IN IF first = {}
       THEN /\ UNCHANGED media_cache
            /\ db_call' = DbCall("get_cached_media", q, "nasa", 0, NoRow)
       ELSE \E m \in first :
               /\ m.use_count < MaxUseCount
               /\ media_cache' = CacheTouch(media_cache, m, now)
               /\ db_call' = DbCall("get_cached_media", q, "nasa", 0, m)
    /\ UNCHANGED <<breakerVars, worker, race, api_tracking, provider, changes, searches>>
    /\ UNCHANGED <<last_call, prev_call, since_success, streak, reset_by, pipelineVars>>

\* DatabaseClient.cleanup_expired_cache()
CleanupExpiredCache ==
    /\ media_cache' = CleanupExpiredTable(media_cache, now)
    /\ db_call' = DbCall("cleanup_expired_cache", <<>>, "nasa", 0, NoRow)
    /\ UNCHANGED <<breakerVars, worker, race, api_tracking, provider, changes, searches>>
    /\ UNCHANGED <<last_call, prev_call, since_success, streak, reset_by, pipelineVars>>

\* time passes between two calls of the client
StoreTick(d) ==
    /\ now + d <= MaxStoreTime
    /\ Tick(d)

\* what the media_cache table holds when a run starts: rows of earlier runs,
\* saved retention_days before their expiry, at most one for a hash
StoredRow(i, q, s, quality, uses, expires) ==
    [CacheRow(i, q, s, quality, uses, expires) EXCEPT
        !.last_used_at = expires - retention_days * DaySeconds]
InitStoreCaches ==
    { {StoredRow(1, <<"m", "o", " ", "o">>, "nasa", 3, 1, StartTime + 10),
       StoredRow(2, <<"m", "o", " ", "o">>, "pexels", 5, 0, StartTime + 30)},
      {StoredRow(1, <<"m", "o", " ", "o">>, "nasa", 5, 1, StartTime - 10),
       StoredRow(2, <<"o">>, "pexels", 5, 0, StartTime + 10)} }

InitCache ==
    /\ failures = [s \in Sources |-> Absent]
    /\ last_failure_time = [s \in Sources |-> Absent]
    /\ now = StartTime
    /\ last_call = NoCall
    /\ prev_call = NoCall
    /\ since_success = [s \in Sources |-> 0]
    /\ streak = [s \in Sources |-> 0]
    /\ reset_by = [s \in Sources |-> "none"]
    /\ worker = [w \in Workers |-> IdleWorker]
    /\ race = [s \in Sources |-> NoRace]
    /\ api_tracking = <<>>
    /\ media_cache \in InitStoreCaches
    /\ provider = [s \in Sources |-> "unset"]
    /\ changes = 0
    /\ searches = 0
    /\ db_call = NoDbCall
    /\ PipelineAtRest

NextCache ==
    \/ \E i \in SaveInputs, h \in Hashes :
          SaveMediaCache(i.query, i.source, h, i.quality_score)
    \/ \E q \in StoreQueries : LookupCachedMedia(q)
    \/ CleanupExpiredCache
    \/ \E d \in StoreTicks : StoreTick(d)

SpecCache == InitCache /\ [][NextCache]_vars

(* ---------------- the media cache shared by the pool's threads ---------------- *)
(* process_segment calls save_media_cache from every thread of the pool. The   *)
(* call is two requests to the store, the select of line 45 and the insert of  *)
(* line 63, and another thread's requests may be served between them.          *)

\* save_media_cache, line 42: quality_score: int = 5 (process_segment passes none)
default_quality_score == 5

\* a thread enters save_media_cache(query, source, ..., file_hash, ...)
BeginSave(w, q, s, h) ==
    /\ worker[w].pc = "idle"
    /\ worker' = [worker EXCEPT ![w] =
                    [IdleWorker EXCEPT !.pc = "save_select", !.query = q, !.source = s, !.tmp = h]]
    /\ UNCHANGED <<breakerVars, race, searchVars>>
    /\ UNCHANGED <<histVars, pipelineVars>>

\* save_media_cache, lines 45-48: the select by file_hash; a row found is returned
SaveSelect(w) ==
    /\ worker[w].pc = "save_select"
    /\ LET existing == CacheWithHash(media_cache, worker[w].tmp)
       IN IF existing # {}
          THEN \E m \in existing :
                  worker' = [worker EXCEPT ![w].pc = "save_done", ![w].looked = TRUE,
                                           ![w].matches = existing, ![w].idx = m.id]
          ELSE worker' = [worker EXCEPT ![w].pc = "save_insert", ![w].looked = TRUE,
                                        ![w].matches = existing]
    /\ UNCHANGED <<breakerVars, race, searchVars>>
    /\ UNCHANGED <<histVars, pipelineVars>>

\* save_media_cache, lines 50-64: the insert. The table's definition is not
\* part of the sources: if file_hash is not declared unique the row is added
\* next to any row of the same hash; if it is, the store rejects the insert of
\* a hash it holds and execute() raises.
SaveInsert(w, unique_hash) ==
    /\ worker[w].pc = "save_insert"
    /\ LET wr == worker[w]
           row == NewCacheRow(media_cache, wr.query, wr.source, wr.tmp, default_quality_score, now)
       IN IF unique_hash /\ CacheWithHash(media_cache, wr.tmp) # {}
          THEN /\ worker' = [worker EXCEPT ![w].pc = "save_done", ![w].raised = TRUE]
               /\ UNCHANGED media_cache
          ELSE /\ worker' = [worker EXCEPT ![w].pc = "save_done", ![w].idx = row.id]
               /\ media_cache' = media_cache \cup {row}
    /\ UNCHANGED <<breakerVars, race, api_tracking, provider, changes, searches>>
    /\ UNCHANGED <<histVars, pipelineVars>>

\* process_segment goes on after the save (or in its except branch)
SaveReturn(w) ==
    /\ worker[w].pc = "save_done"
    /\ worker' = [worker EXCEPT ![w] = IdleWorker]
    /\ UNCHANGED <<breakerVars, race, searchVars>>
    /\ UNCHANGED <<histVars, pipelineVars>>

NextCacheRace ==
    \/ \E w \in Workers, i \in SaveInputs, h \in Hashes : BeginSave(w, i.query, i.source, h)
    \/ \E w \in Workers : SaveSelect(w)
    \/ \E w \in Workers, unique_hash \in BOOLEAN : SaveInsert(w, unique_hash)
    \/ \E w \in Workers : SaveReturn(w)

SpecCacheRace == Init /\ [][NextCacheRace]_vars

(* ---------------- DatabaseClient called on its own: the call log ---------------- *)

\* the call records written since the run started
NewLogRows(log) == {i \in DOMAIN log : log[i].created_at >= StartTime}

\* DatabaseClient.track_api_call(source, "", success, ...)
TrackCall(s, ok) ==
    /\ Cardinality(NewLogRows(api_tracking)) < MaxNewLogRows
    /\ api_tracking' = TrackApiCall(api_tracking, s, <<>>, ok, now)
    /\ db_call' = [NoDbCall EXCEPT !.op = "track_api_call", !.source = s, !.at = now]
    /\ UNCHANGED <<breakerVars, worker, race, media_cache, provider, changes, searches>>
    /\ UNCHANGED <<last_call, prev_call, since_success, streak, reset_by, pipelineVars>>

\* DatabaseClient.get_api_health(source, minutes)
GetHealth(s, minutes) ==
    /\ db_call' = [NoDbCall EXCEPT !.op = "get_api_health", !.source = s, !.minutes = minutes,
                                   !.ret = GetApiHealth(api_tracking, s, minutes, now),
                                   !.at = now]
    /\ UNCHANGED <<breakerVars, worker, race, searchVars>>
    /\ UNCHANGED <<last_call, prev_call, since_success, streak, reset_by, pipelineVars>>

\* time passes between two calls on the call log
LogTick(d) ==
    /\ now + d <= MaxLogTime
    /\ Tick(d)

InitCallLog ==
    /\ InitSearch
    /\ media_cache = {}

NextCallLog ==
    \/ \E s \in LogSources, ok \in BOOLEAN : TrackCall(s, ok)
    \/ \E s \in LogSources, minutes \in HealthWindows : GetHealth(s, minutes)
    \/ \E d \in LogTicks : LogTick(d)

SpecCallLog == InitCallLog /\ [][NextCallLog]_vars

(* ======================= claims ======================= *)

IsOpenCallOn(c, s) == c.op = "is_open" /\ c.source = s
FailureCallOn(c, s) == c.op = "record_failure" /\ c.source = s
SuccessCallOn(c, s) == c.op = "record_success" /\ c.source = s
\* the time since the last recorded failure, at the moment call c was made
ElapsedAt(c, s) == Elapsed(last_failure_time, c.at, s)

\* C1 as stated: once failure_threshold record_failure calls were made with no
\* record_success in between, every is_open check made while less than timeout
\* has passed since the last recorded failure returns true.
C1_AsStated ==
    \A s \in Sources :
        (IsOpenCallOn(last_call, s) /\ since_success[s] >= failure_threshold
            /\ ElapsedAt(last_call, s) < timeout)
        => last_call.ret = TRUE

\* C1: once failure_threshold record_failure calls were made with neither a
\* record_success nor a timed-out is_open check (which resets the count) in
\* between, every is_open check made while less than timeout has passed since
\* the last recorded failure returns true; is_open never returns true when
\* fewer than failure_threshold failures were counted since the last reset.
C1_OpenAfterThreshold ==
    \A s \in Sources :
        IsOpenCallOn(last_call, s) =>
            /\ (streak[s] >= failure_threshold /\ ElapsedAt(last_call, s) < timeout)
                  => last_call.ret = TRUE
            /\ (streak[s] < failure_threshold \/ last_call.before < failure_threshold)
                  => last_call.ret = FALSE

\* C1 witness: a check right after the threshold-th failure in a row answers
\* open, on a source whose count had been reset by a timeout before.
C1_Witness ==
    \E s \in Sources :
        /\ IsOpenCallOn(last_call, s) /\ last_call.ret = TRUE
        /\ FailureCallOn(prev_call, s)
        /\ streak[s] = failure_threshold
        /\ reset_by[s] = "timeout"

\* C2: record_success leaves the source's failure count at 0 whatever it was
\* before, and an is_open check of that source made right after it returns
\* false.
C2_SuccessResets ==
    \A s \in Sources :
        /\ SuccessCallOn(last_call, s) => failures[s] = 0
        /\ (IsOpenCallOn(last_call, s) /\ SuccessCallOn(prev_call, s))
              => (last_call.ret = FALSE /\ failures[s] = 0)

\* C2 witness: the circuit was open (count over the threshold, timeout not
\* elapsed) when record_success was called, and is_open was checked right after.
C2_Witness ==
    \E s \in Sources :
        /\ IsOpenCallOn(last_call, s) /\ SuccessCallOn(prev_call, s)
        /\ prev_call.before > failure_threshold
        /\ ElapsedAt(prev_call, s) < timeout

\* an is_open check of s that found the count at or over the threshold and
\* returned false: only the elapsed timeout made it false
TimedOutCheck(c, s) ==
    IsOpenCallOn(c, s) /\ c.before >= failure_threshold /\ c.ret = FALSE

\* C3: an is_open check that returned false only because the timeout elapsed
\* leaves the count at 0, and from then on is_open returns false as long as
\* fewer than failure_threshold new failures were recorded; one is not enough.
C3_TimeResetNeedsThreshold ==
    \A s \in Sources :
        /\ TimedOutCheck(last_call, s) => failures[s] = 0
        /\ (reset_by[s] = "timeout" /\ streak[s] < failure_threshold
              /\ IsOpenCallOn(last_call, s))
              => last_call.ret = FALSE

\* C3 witness: after a time reset one failure was recorded and is_open was
\* checked right away, the timeout of that failure not elapsed.
C3_Witness ==
    \E s \in Sources :
        /\ reset_by[s] = "timeout" /\ streak[s] = 1
        /\ IsOpenCallOn(last_call, s) /\ FailureCallOn(prev_call, s)
        /\ ElapsedAt(last_call, s) < timeout

\* C4 as stated: after a time reset by an is_open check, the very next recorded
\* failure re-opens the circuit.
C4_AsStated ==
    \A s \in Sources :
        (reset_by[s] = "timeout" /\ streak[s] = 1
            /\ FailureCallOn(last_call, s) /\ TimedOutCheck(prev_call, s))
        => IsOpenRet(failures, last_failure_time, now, s)

\* C4: after an is_open check crossed the timeout with the count at or over
\* the threshold, the very next recorded failure brings the count to 1 and
\* leaves the circuit closed: failure_threshold failures re-open it, not one.
C4_NextFailureCountsOne ==
    \A s \in Sources :
        (FailureCallOn(last_call, s) /\ TimedOutCheck(prev_call, s))
        => /\ failures[s] = 1
           /\ ~IsOpenRet(failures, last_failure_time, now, s)
           /\ last_call.before = 0

\* C4 witness: the failure recorded right after a timed-out check.
C4_Witness ==
    \E s \in Sources :
        /\ FailureCallOn(last_call, s) /\ TimedOutCheck(prev_call, s)
        /\ prev_call.before >= failure_threshold
        /\ now = last_failure_time[s]

\* the counts a sequential order of the calls begun on s can leave: every
\* record_failure adds one; an is_open resets only when it runs first, on a
\* count over the threshold whose timeout has elapsed
SequentialCounts(s) ==
    LET r == race[s]
        b == IF r.base = Absent THEN 0 ELSE r.base
        kept == IF r.nfail = 0 THEN r.base ELSE b + r.nfail
    IN IF r.checked /\ r.could_reset
       THEN {r.nfail} \cup (IF r.nfail > 0 THEN {kept} ELSE {})
       ELSE {kept}

\* C5: when the calls several workers made on one source at the same time have
\* all returned, the failure count is one that some sequential order of these
\* calls gives: no record_failure is lost.
C5_NoLostUpdate ==
    \A s \in Sources : Quiescent(s) => failures[s] \in SequentialCounts(s)

(* ---- search_with_fallback ---- *)

Last(T) == T[Len(T)]
AttemptEvents == {"url", "empty", "fail"}
GateEvents == {"open", "closed"}
HealthEvents == {"healthy", "unhealthy"}
\* the provider calls issued so far by the search of worker w
ProviderCalls(w) == {i \in DOMAIN worker[w].trail : worker[w].trail[i].event \in AttemptEvents}
\* the place of source s in the ordering of the search of worker w
Pos(w, s) == CHOOSE i \in 1..Len(SearchOrder(worker[w].prefer_video)) :
                 SearchOrder(worker[w].prefer_video)[i] = s
CacheMissed(w) == worker[w].looked /\ worker[w].matches = {}

\* C6: a search whose cache lookup found an unexpired row of the normalized
\* query has returned that row's URL at once: no provider was gated, checked
\* or called and no call record was written.
C6_CacheHitNoProviderCall ==
    \A w \in Workers :
        (worker[w].looked /\ worker[w].matches # {}) =>
            /\ worker[w].pc = "returned"
            /\ worker[w].result \in {m.media_url : m \in worker[w].matches}
            /\ worker[w].trail = <<>>
            /\ Len(api_tracking) = worker[w].log_at_start
            /\ ~worker[w].raised

\* C6 witness: a cache hit by a search made after an earlier search had called
\* providers, the row found being the unexpired one of two rows of the query.
C6_Witness ==
    \E w \in Workers :
        /\ worker[w].pc = "returned" /\ worker[w].looked
        /\ Cardinality(worker[w].matches) = 1
        /\ \E m \in media_cache : m.query = NormalizeQuery(worker[w].query) /\ m.expires_at <= now
        /\ worker[w].query # NormalizeQuery(worker[w].query)
        /\ searches = 2

\* C7: a search that missed the cache while the circuits of all the providers
\* of its ordering were open (count at or over the threshold when it began,
\* timeout not elapsed when it returned) returns None, has called no provider
\* and has written no call record.
C7_AllOpenNoCall ==
    \A w \in Workers :
        (/\ worker[w].pc = "returned" /\ CacheMissed(w)
         /\ worker[w].open_at_start
         /\ \A i \in 1..Len(SearchOrder(worker[w].prefer_video)) :
               Elapsed(last_failure_time, now, SearchOrder(worker[w].prefer_video)[i]) < timeout)
        => /\ worker[w].result = None
           /\ ProviderCalls(w) = {}
           /\ Len(api_tracking) = worker[w].log_at_start
           /\ ~worker[w].raised

\* C7 witness: such a search has returned, every provider of its ordering
\* skipped for its open circuit.
C7_Witness ==
    \E w \in Workers :
        /\ worker[w].pc = "returned" /\ CacheMissed(w) /\ worker[w].open_at_start
        /\ Len(worker[w].trail) = 4
        /\ \A i \in DOMAIN worker[w].trail : worker[w].trail[i].event = "open"
        /\ worker[w].result = None

\* the success rate of s over the call records of the last 30 minutes is under 0.3
RateUnderFloor(s) ==
    LET rows == {i \in DOMAIN api_tracking :
                    api_tracking[i].source = s /\ now - api_tracking[i].created_at < 30 * 60}
        good == {i \in rows : api_tracking[i].success}
    IN rows # {} /\ 10 * Cardinality(good) < 3 * Cardinality(rows)

\* C8: the health check of a search skips the provider exactly when its success
\* rate over the last 30 minutes of the call log is under 0.3 (a provider with
\* no record in the window is not skipped); no call is issued to a provider
\* skipped for health, and a provider not skipped is called next.
C8_HealthFloorSkips ==
    \A w \in Workers :
        LET T == worker[w].trail IN
        /\ (T # <<>> /\ Last(T).event \in HealthEvents) =>
              /\ (Last(T).event = "unhealthy") <=> RateUnderFloor(Last(T).source)
              /\ Last(T).event = "healthy" => worker[w].pc = "attempt"
              /\ Last(T).event = "unhealthy" =>
                    (worker[w].pc \in {"gate", "returned"} /\ worker[w].result = None)
        /\ \A i, j \in DOMAIN T :
              (i < j /\ T[i].event = "unhealthy") => T[j].source # T[i].source

\* C8 witness: a provider skipped for health whose circuit is closed and that
\* has not been called in this run.
C8_Witness ==
    \E w \in Workers :
        LET T == worker[w].trail IN
        /\ T # <<>> /\ Last(T).event = "unhealthy"
        /\ failures[Last(T).source] = Absent
        /\ Len(T) >= 2 /\ T[Len(T) - 1] = [source |-> Last(T).source, event |-> "closed"]

\* C9: a search visits the providers in the order of its ordering, one after
\* the other from the first; the first non-empty result ends it: the URL
\* returned is that provider's and nothing is done after it.
C9_FirstNonEmptyWins ==
    \A w \in Workers :
        LET T == worker[w].trail IN
        /\ T # <<>> => Pos(w, T[1].source) = 1
        /\ \A i \in DOMAIN T :
              i < Len(T) =>
                 \/ Pos(w, T[i + 1].source) = Pos(w, T[i].source)
                 \/ (Pos(w, T[i + 1].source) = Pos(w, T[i].source) + 1 /\ T[i + 1].event \in GateEvents)
        /\ \A i \in DOMAIN T :
              T[i].event = "url" =>
                 /\ i = Len(T)
                 /\ worker[w].pc = "returned"
                 /\ worker[w].result = ProviderUrl(T[i].source, worker[w].query)
        /\ (worker[w].pc = "returned" /\ CacheMissed(w) /\ worker[w].result # None)
              => (T # <<>> /\ Last(T).event = "url")

\* C9 witness: a search returned the URL of a provider that is neither the
\* first nor the last of its ordering, after an exhausted and an empty one.
C9_Witness ==
    \E w \in Workers :
        LET T == worker[w].trail IN
        /\ worker[w].pc = "returned" /\ worker[w].result # None /\ CacheMissed(w)
        /\ Pos(w, worker[w].result.source) = 3
        /\ \E i \in DOMAIN T : T[i].event = "exhausted"
        /\ \E i \in DOMAIN T : T[i].event = "empty"

\* C10: no exception leaves a search: after a provider has exhausted its
\* retries or answered nothing, the next provider of the ordering is gated,
\* and after the last one, as whenever no provider gave a URL, the search
\* returns None.
C10_NoRaiseOutOfSearch ==
    \A w \in Workers :
        LET T == worker[w].trail
            n == Len(SearchOrder(worker[w].prefer_video))
        IN
        /\ ~worker[w].raised
        /\ \A i \in DOMAIN T :
              T[i].event \in {"exhausted", "empty"} =>
                 IF i < Len(T)
                 THEN /\ Pos(w, T[i + 1].source) = Pos(w, T[i].source) + 1
                      /\ T[i + 1].event \in GateEvents
                 ELSE \/ /\ Pos(w, T[i].source) < n
                         /\ worker[w].pc = "gate"
                         /\ worker[w].idx = Pos(w, T[i].source) + 1
                      \/ /\ Pos(w, T[i].source) = n
                         /\ worker[w].pc = "returned"
                         /\ worker[w].result = None
        /\ \A i \in DOMAIN T :
              T[i].event = "exhausted" =>
                 /\ i > max_retries
                 /\ \A k \in 1..max_retries :
                       T[i - k] = [source |-> T[i].source, event |-> "fail"]
        /\ (worker[w].pc = "returned" /\ CacheMissed(w)
              /\ \A i \in DOMAIN T : T[i].event # "url")
              => worker[w].result = None

\* C10 witness: a search returned None after one provider was exhausted,
\* another answered nothing and the last one of the ordering was exhausted.
C10_Witness ==
    \E w \in Workers :
        LET T == worker[w].trail IN
        /\ worker[w].pc = "returned" /\ worker[w].result = None /\ ~worker[w].raised
        /\ \E i \in DOMAIN T : T[i].event = "empty"
        /\ T # <<>> /\ Last(T).event = "exhausted"
        /\ Cardinality({i \in DOMAIN T : T[i].event = "exhausted"}) >= 2

(* ---- retry_with_backoff ---- *)

\* the call records written since the search of worker w began
RowsOfSearch(w) == SubSeq(api_tracking, worker[w].log_at_start + 1, Len(api_tracking))
IsAttemptEvent(e) == e.event \in AttemptEvents
\* the attempts made so far by the search of worker w, in order
AttemptsOf(w) == SelectSeq(worker[w].trail, IsAttemptEvent)
\* failures.get(source, 0)
CountOf(f, s) == IF f[s] = Absent THEN 0 ELSE f[s]

\* the call records of the search of worker w are its attempts, one for one
C11_Records(w) ==
    worker[w].pc # "idle" =>
        LET R == RowsOfSearch(w)
            A == AttemptsOf(w)
        IN /\ Len(R) = Len(A)
           /\ \A k \in 1..Len(A) :
                 /\ R[k].source = A[k].source
                 /\ R[k].success = (A[k].event # "fail")

\* a step of worker w: an attempt writes one record and updates the breaker
\* once; any other step writes no record and records no success or failure
C11_Step(w) ==
    LET T == worker[w].trail
        U == worker'[w].trail
    IN IF Len(U) = Len(T) + 1 /\ IsAttemptEvent(Last(U))
       THEN LET s == Last(U).source
                ok == Last(U).event # "fail"
            IN /\ Len(api_tracking') = Len(api_tracking) + 1
               /\ SubSeq(api_tracking', 1, Len(api_tracking)) = api_tracking
               /\ Last(api_tracking').source = s
               /\ Last(api_tracking').success = ok
               /\ failures'[s] = (IF ok THEN 0 ELSE CountOf(failures, s) + 1)
               /\ \A o \in Sources \ {s} : failures'[o] = failures[o]
               /\ last_failure_time' =
                     (IF ok THEN last_failure_time ELSE [last_failure_time EXCEPT ![s] = now])
       ELSE /\ api_tracking' = api_tracking
            /\ last_failure_time' = last_failure_time
            /\ \A o \in Sources : failures'[o] \in {failures[o], 0}

\* C11: every attempt of retry_with_backoff, failed or successful, the failed
\* ones before a success included, appends exactly one call record of its
\* source with the matching success flag and makes exactly one breaker update
\* (record_failure after a failure, record_success after a success); no other
\* step writes a record, so the records of a search are as many as its attempts.
C11_EveryAttemptRecorded ==
    [][\A w \in SearchWorkers : C11_Step(w) /\ C11_Records(w)']_vars

\* C11 witness: two failed attempts, then a successful one on the same source:
\* three records, the count back at 0.
C11_Witness ==
    \E w \in SearchWorkers :
        LET A == AttemptsOf(w) IN
        /\ Len(A) = 3 /\ A[1].event = "fail" /\ A[2].event = "fail" /\ A[3].event = "url"
        /\ A[1].source = A[3].source /\ A[2].source = A[3].source
        /\ Len(RowsOfSearch(w)) = 3
        /\ ~RowsOfSearch(w)[1].success /\ RowsOfSearch(w)[3].success
        /\ failures[A[3].source] = 0

\* the failed attempts at the end of the trail of worker w on its current source
RECURSIVE TrailingFails(_, _)
TrailingFails(T, s) ==
    IF T # <<>> /\ Last(T) = [source |-> s, event |-> "fail"]
    THEN 1 + TrailingFails(SubSeq(T, 1, Len(T) - 1), s)
    ELSE 0

\* C12: retry_with_backoff makes at most max_retries attempts on a source: a
\* successful attempt is the last one made on that source; after the failed
\* attempt of index k < max_retries - 1 it sleeps base_delay * 2^k and the next
\* attempt starts that long after the failure; the failure of attempt
\* max_retries - 1 is raised to the caller without a sleep.
C12_BoundedBackoff ==
    \A w \in SearchWorkers :
        LET T == worker[w].trail
            wr == worker[w]
        IN
        /\ \A s \in Sources :
              Cardinality({i \in DOMAIN T : T[i].source = s /\ IsAttemptEvent(T[i])}) <= max_retries
        /\ \A i \in DOMAIN T :
              T[i].event \in {"url", "empty"} =>
                 \A j \in (i + 1)..Len(T) : IsAttemptEvent(T[j]) => T[j].source # T[i].source
        /\ wr.pc = "attempt" =>
              /\ wr.attempt < max_retries
              /\ TrailingFails(T, CurrentSource(wr)) = wr.attempt
              /\ wr.attempt > 0 =>
                    now = last_failure_time[CurrentSource(wr)] + base_delay * Pow2(wr.attempt - 1)
        /\ wr.pc = "sleep" =>
              /\ wr.attempt < max_retries - 1
              /\ TrailingFails(T, CurrentSource(wr)) = wr.attempt + 1
              /\ now = last_failure_time[CurrentSource(wr)]
              /\ wr.wake = now + base_delay * Pow2(wr.attempt)
        /\ wr.pc = "raised" =>
              /\ wr.attempt = max_retries - 1
              /\ TrailingFails(T, CurrentSource(wr)) = max_retries
              /\ now = last_failure_time[CurrentSource(wr)]
        /\ (T # <<>> /\ Last(T).event = "fail") =>
              (wr.pc \in {"sleep", "raised"} \/ (wr.pc = "attempt" /\ wr.attempt > 0))

\* C12 witness: the third attempt on a source has failed and is raised; the
\* three records are 1 s and then 2 s apart.
C12_Witness ==
    \E w \in SearchWorkers :
        LET R == RowsOfSearch(w) IN
        /\ worker[w].pc = "raised"
        /\ Len(R) >= 3
        /\ R[Len(R) - 1].created_at = R[Len(R) - 2].created_at + 1
        /\ R[Len(R)].created_at = R[Len(R) - 1].created_at + 2
        /\ now = R[Len(R)].created_at

\* C13 as stated: an attempt whose provider call ended in a network error, a
\* status other than 2xx or a malformed payload is recorded with success =
\* false, counted by record_failure and retried (slept on) or, if it was the
\* last attempt allowed, raised.
C13_TransientFailureRecorded ==
    \A w \in SearchWorkers :
        LET A == AttemptsOf(w) IN
        (A # <<>> /\ provider[Last(A).source] \in TransientFailures) =>
            /\ Last(A).event = "fail"
            /\ ~Last(RowsOfSearch(w)).success
            /\ failures[Last(A).source] >= 1

(* ---- the media cache ---- *)

SaveCall == db_call.op = "save_media_cache"
LookupCall == db_call.op = "get_cached_media"
SweepCall == db_call.op = "cleanup_expired_cache"
LookupHit == LookupCall /\ db_call.ret # NoRow

\* C14: the media cache holds at most one row for a content hash; a
\* save_media_cache whose file_hash is that of a row of the table adds no row,
\* leaves the table as it was and returns that row, whatever the query and the
\* source it was called with.
C14_OneRowPerHash ==
    /\ \A a, b \in media_cache : a.file_hash = b.file_hash => a = b
    /\ (SaveCall /\ CacheWithHash(db_call.before, db_call.hash) # {}) =>
          /\ media_cache = db_call.before
          /\ \E m \in media_cache : m.file_hash = db_call.hash /\ db_call.ret = [id |-> m.id]
    /\ (SaveCall /\ CacheWithHash(db_call.before, db_call.hash) = {}) =>
          /\ Cardinality(media_cache) = Cardinality(db_call.before) + 1
          /\ db_call.before \subseteq media_cache
          /\ \E m \in media_cache \ db_call.before :
                /\ m.file_hash = db_call.hash /\ db_call.ret = [id |-> m.id]
                /\ m.query = NormalizeQuery(db_call.query)
                /\ m.expires_at = db_call.at + retention_days * DaySeconds

\* C14 witness: a save with the hash of a stored row, under another query and
\* another source than the row's.
C14_Witness ==
    /\ SaveCall
    /\ \E m \in media_cache :
          /\ m.file_hash = db_call.hash
          /\ db_call.ret = [id |-> m.id]
          /\ m.query # NormalizeQuery(db_call.query)
          /\ m.source # db_call.source
    /\ Cardinality(media_cache) = 3

\* the rows of the table before the call that the lookup could choose from
LookupCandidates ==
    LET normalized_query == NormalizeQuery(db_call.query)
    IN {m \in db_call.before : m.query = normalized_query /\ m.expires_at > db_call.at}

\* C16: a row returned by get_cached_media was in the table, its expires_at is
\* later than the time of the lookup and its query is the normalized lookup
\* query, also while expired rows of that query are still in the table.
C16_LookupNeverExpired ==
    LookupHit =>
        /\ db_call.ret \in db_call.before
        /\ db_call.ret.expires_at > db_call.at
        /\ db_call.ret.query = NormalizeQuery(db_call.query)

\* C16 witness: lookups made while a row of the query, expired and not swept,
\* is in the table: one that returned an unexpired row of the query, under a
\* query that is not in normal form.
C16_Witness ==
    /\ LookupHit
    /\ db_call.query # NormalizeQuery(db_call.query)
    /\ \E m \in db_call.before :
          /\ m.query = NormalizeQuery(db_call.query)
          /\ m.expires_at <= db_call.at
          /\ m.quality_score >= db_call.ret.quality_score

\* C17: when unexpired rows match the query, get_cached_media returns one of
\* them, and none of them has a higher quality score than the row returned,
\* nor the same quality score and a higher use count, whichever was inserted
\* first.
C17_BestQualityThenUseCount ==
    LookupCall =>
        /\ LookupCandidates # {} => db_call.ret \in LookupCandidates
        /\ \A o \in LookupCandidates :
              /\ o.quality_score <= db_call.ret.quality_score
              /\ o.quality_score = db_call.ret.quality_score => o.use_count <= db_call.ret.use_count

\* C17 witness: of three unexpired rows of the query the lookup returned the
\* one inserted second: the first has a lower quality score, the third the
\* same quality score and a lower use count.
C17_Witness ==
    /\ LookupHit
    /\ \E a, b \in LookupCandidates :
          /\ a.id < db_call.ret.id /\ a.quality_score < db_call.ret.quality_score
          /\ b.id > db_call.ret.id /\ b.quality_score = db_call.ret.quality_score
          /\ b.use_count < db_call.ret.use_count

\* C18: a get_cached_media that returns a row leaves the table as it was but
\* for that row, whose use_count is one more than the one returned and whose
\* last_used_at is the time of the lookup; one that returns None leaves the
\* table as it was.
C18_HitBumpsOnlyReturned ==
    LookupCall =>
        IF db_call.ret = NoRow
        THEN media_cache = db_call.before
        ELSE /\ media_cache \ db_call.before =
                   {[db_call.ret EXCEPT !.use_count = db_call.ret.use_count + 1,
                                        !.last_used_at = db_call.at]}
             /\ db_call.before \ media_cache = {db_call.ret}

\* C18 witness: a hit on a row used before, in a table with other rows, one of
\* them of the same query.
C18_Witness ==
    /\ LookupHit
    /\ db_call.ret.use_count >= 1
    /\ db_call.ret.last_used_at < db_call.at
    /\ \E o \in media_cache : o.id # db_call.ret.id /\ o.query = db_call.ret.query
    /\ Cardinality(media_cache) = 3

\* C19: cleanup_expired_cache deletes every row whose expires_at is earlier
\* than the time of the sweep and no row whose expires_at is later; neither
\* get_cached_media nor save_media_cache removes a row.
C19_OnlySweepDeletes ==
    /\ SweepCall =>
          /\ media_cache \subseteq db_call.before
          /\ \A m \in db_call.before :
                /\ m.expires_at < db_call.at => m \notin media_cache
                /\ m.expires_at > db_call.at => m \in media_cache
    /\ (LookupCall \/ SaveCall) =>
          {m.id : m \in db_call.before} \subseteq {m.id : m \in media_cache}

\* C19 witness: a sweep that deleted an expired row and kept an unexpired one.
C19_Witness ==
    /\ SweepCall
    /\ \E m \in db_call.before : m.expires_at < db_call.at /\ m \notin media_cache
    /\ \E m \in media_cache : m.expires_at > db_call.at /\ m.expires_at < db_call.at + DaySeconds

\* C15: when two workers have both found no row of a hash and have both gone
\* on to insert it, the table holds exactly one row of that hash once both
\* calls are over, and neither call has raised.
C15_ConcurrentInsertConverges ==
    \A v, w \in Workers :
        (/\ v # w
         /\ worker[v].pc = "save_done" /\ worker[w].pc = "save_done"
         /\ worker[v].tmp = worker[w].tmp
         /\ worker[v].matches = {} /\ worker[w].matches = {})
        => /\ Cardinality(CacheWithHash(media_cache, worker[v].tmp)) = 1
           /\ ~worker[v].raised /\ ~worker[w].raised

(* ---- the call log ---- *)

HealthCall == db_call.op = "get_api_health"
\* the call records of the source of the last get_api_health created within
\* its window, and the successful ones among them
WindowRows ==
    {i \in DOMAIN api_tracking :
        /\ api_tracking[i].source = db_call.source
        /\ db_call.at - api_tracking[i].created_at < db_call.minutes * 60}
WindowSuccesses == {i \in WindowRows : api_tracking[i].success}

\* C20: get_api_health(source, minutes) reports as total_calls the number of
\* call records of the source created within the last minutes, and as
\* success_rate the share of the successful ones among them, a number from 0
\* to 1; with no such record it reports total_calls = 0 and success_rate = 1.0.
C20_HealthOverWindow ==
    HealthCall =>
        /\ db_call.ret.total_calls = Cardinality(WindowRows)
        /\ db_call.ret.den > 0
        /\ 0 <= db_call.ret.num /\ db_call.ret.num <= db_call.ret.den
        /\ IF WindowRows = {}
           THEN db_call.ret.num = db_call.ret.den
           ELSE db_call.ret.num * Cardinality(WindowRows) =
                    Cardinality(WindowSuccesses) * db_call.ret.den

\* C20 witness: a report over a window that holds successes and failures of
\* the source, older records of the source and records of other sources being
\* left out.
C20_Witness ==
    /\ HealthCall
    /\ WindowSuccesses # {} /\ WindowSuccesses # WindowRows
    /\ \E i \in DOMAIN api_tracking :
          api_tracking[i].source = db_call.source /\ i \notin WindowRows
    /\ \E i \in DOMAIN api_tracking : api_tracking[i].source # db_call.source

(* ---------------- ResourceManager: the worker count and the disk check ---------------- *)

\* psutil reports bytes; get_optimal_workers (line 14) and check_disk_space
\* (line 27) divide by 1024 ** 3. The model counts in units of 512 MiB, so
\* "memory_gb < 4" is "memory < 4 * MemoryUnitsPerGB".
MemoryUnitsPerGB == 2
\* get_optimal_workers, lines 16 and 18: the two memory thresholds, in GiB
low_memory_gb == 4
high_memory_gb == 8
\* __main__, line 438: check_disk_space(required_gb=5.0)
required_gb == 5

\* mutant: the low-memory branch is missing, the CPU count decides below 4GB too
get_optimal_workers_by_cpu(cpus, memory, min_workers, max_workers) ==
    LET workers == IF memory < high_memory_gb * MemoryUnitsPerGB
                   THEN Min(cpus \div 2, max_workers)
                   ELSE Min(cpus, max_workers)
    IN Max(min_workers, workers)

\* mutant: the result is not floored at min_workers
get_optimal_workers_unfloored(cpus, memory, min_workers, max_workers) ==
    IF memory < low_memory_gb * MemoryUnitsPerGB THEN min_workers
    ELSE IF memory < high_memory_gb * MemoryUnitsPerGB THEN Min(cpus \div 2, max_workers)
    ELSE Min(cpus, max_workers)

\* get_optimal_workers, lines 12-23
get_optimal_workers(cpus, memory, min_workers, max_workers) ==
    LET workers == IF memory < low_memory_gb * MemoryUnitsPerGB THEN min_workers
                   ELSE IF memory < high_memory_gb * MemoryUnitsPerGB
                        THEN Min(cpus \div 2, max_workers)
                        ELSE Min(cpus, max_workers)
    IN Max(min_workers, workers)

\* check_disk_space, lines 25-29: available_gb >= required_gb
check_disk_space(free, required) == free >= required * MemoryUnitsPerGB

\* a call of get_optimal_workers: psutil reads the available memory
GetOptimalWorkers(min_workers, max_workers, memory) ==
    /\ gov_call' = [op |-> "get_optimal_workers", min_workers |-> min_workers,
                    max_workers |-> max_workers, memory |-> memory, disk |-> 0,
                    ret |-> get_optimal_workers(cpu_count, memory, min_workers, max_workers)]
    /\ UNCHANGED <<cpu_count, waiting, gpu, MAX_WORKERS, pool, segment, run>>
    /\ UNCHANGED <<breakerVars, worker, race, searchVars, histVars>>

\* a call of check_disk_space: psutil reads the free disk space
CheckDiskSpace(free) ==
    /\ gov_call' = [op |-> "check_disk_space", min_workers |-> 0, max_workers |-> 0,
                    memory |-> 0, disk |-> free,
                    ret |-> IF check_disk_space(free, required_gb) THEN 1 ELSE 0]
    /\ UNCHANGED <<cpu_count, waiting, gpu, MAX_WORKERS, pool, segment, run>>
    /\ UNCHANGED <<breakerVars, worker, race, searchVars, histVars>>

\* the rest of the program at rest: breaker, workers and store as constructed
StoreAtRest ==
    /\ failures = [s \in Sources |-> Absent]
    /\ last_failure_time = [s \in Sources |-> Absent]
    /\ now = StartTime
    /\ last_call = NoCall
    /\ prev_call = NoCall
    /\ since_success = [s \in Sources |-> 0]
    /\ streak = [s \in Sources |-> 0]
    /\ reset_by = [s \in Sources |-> "none"]
    /\ worker = [w \in Workers |-> IdleWorker]
    /\ race = [s \in Sources |-> NoRace]
    /\ api_tracking = <<>>
    /\ media_cache = {}
    /\ provider = [s \in Sources |-> "unset"]
    /\ changes = 0
    /\ searches = 0
    /\ db_call = NoDbCall

\* ResourceManager.__init__, line 8: os.cpu_count() or 4, so at least 1
InitGovernor ==
    /\ StoreAtRest
    /\ cpu_count \in 1..MaxCpu
    /\ gov_call = NoGovCall
    /\ waiting = NotWaiting
    /\ gpu = NoGpu
    /\ MAX_WORKERS = 2
    /\ pool = NoPool
    /\ segment = <<>>
    /\ run = NotRun

(* The governor called on its own, on any machine. *)
NextGovernor ==
    \/ \E mn \in 0..MaxMinWorkers, mx \in 0..MaxMaxWorkers, m \in MemoryReadings :
          GetOptimalWorkers(mn, mx, m)
    \/ \E d \in DiskReadings : CheckDiskSpace(d)

SpecGovernor == InitGovernor /\ [][NextGovernor]_vars

WorkersCall == gov_call.op = "get_optimal_workers"
LowMemory(c) == c.memory < 4 * MemoryUnitsPerGB
MidMemory(c) == c.memory >= 4 * MemoryUnitsPerGB /\ c.memory < 8 * MemoryUnitsPerGB
HighMemory(c) == c.memory >= 8 * MemoryUnitsPerGB

\* C21: whenever the available memory is below 4GB, get_optimal_workers
\* returns min_workers, whatever the CPU count, min_workers and max_workers
\* are; so get_optimal_workers(2, 8) returns exactly 2.
C21_LowMemoryGivesMin ==
    (WorkersCall /\ LowMemory(gov_call)) => gov_call.ret = gov_call.min_workers

\* C21 witness: get_optimal_workers(2, 8) returned 2 with less than 4GB
\* available on a machine whose CPUs alone would have allowed more.
C21_Witness ==
    /\ WorkersCall /\ LowMemory(gov_call)
    /\ gov_call.min_workers = 2 /\ gov_call.max_workers = 8
    /\ cpu_count \div 2 > 2
    /\ gov_call.ret = 2

\* C22: with 4GB to under 8GB available the result is min(cpu_count // 2, max)
\* floored at min, with 8GB or more min(cpu_count, max) floored at min; the
\* result is never below min and, when min <= max, never above max.
C22_StepFunctionOfMemory ==
    WorkersCall =>
        LET c == gov_call
        IN /\ MidMemory(c) => c.ret = Max(c.min_workers, Min(cpu_count \div 2, c.max_workers))
           /\ HighMemory(c) => c.ret = Max(c.min_workers, Min(cpu_count, c.max_workers))
           /\ c.ret >= c.min_workers
           /\ c.min_workers <= c.max_workers => c.ret <= c.max_workers

\* C22 witness: one CPU and 4GB to under 8GB available: half the CPUs is 0,
\* and the call returned min_workers all the same.
C22_Witness ==
    /\ WorkersCall /\ MidMemory(gov_call)
    /\ cpu_count = 1
    /\ gov_call.min_workers = 2 /\ gov_call.max_workers >= 2
    /\ gov_call.ret = 2

(* ---------------- ResourceManager: the bounded wait ---------------- *)

\* should_throttle, lines 40-41, and wait_for_resources, lines 45 and 50
cpu_threshold == 90
memory_threshold == 85
default_timeout == 300
poll_seconds == 5

\* should_throttle, lines 40-43, on the readings of CPU and memory usage
should_throttle(cpu, memory) == cpu > cpu_threshold \/ memory > memory_threshold

\* mutant: the loop does not look at the elapsed count
LoopGoesOn_while_throttled(throttle, elapsed, limit) == throttle

\* wait_for_resources, line 49: while self.should_throttle() and elapsed < timeout
LoopGoesOn(throttle, elapsed, limit) == throttle /\ elapsed < limit

\* wait_for_resources(timeout) is called: lines 46-47
BeginWait(limit) ==
    /\ waiting.pc = "idle"
    /\ waiting' = [NotWaiting EXCEPT !.pc = "test", !.timeout = limit]
    /\ UNCHANGED <<cpu_count, gov_call, gpu, MAX_WORKERS, pool, segment, run>>
    /\ UNCHANGED <<breakerVars, worker, race, searchVars, histVars>>

\* line 49: the loop test; should_throttle reads the CPU and memory usage
LoopTest(cpu, memory) ==
    /\ waiting.pc = "test"
    /\ LET throttle == should_throttle(cpu, memory)
       IN waiting' = [waiting EXCEPT
                        !.polls = @ + 1,
                        !.throttled = throttle,
                        !.pc = IF LoopGoesOn(throttle, waiting.elapsed, waiting.timeout)
                               THEN "wait" ELSE "returned"]
    /\ UNCHANGED <<cpu_count, gov_call, gpu, MAX_WORKERS, pool, segment, run>>
    /\ UNCHANGED <<breakerVars, worker, race, searchVars, histVars>>

\* lines 50-51: start_time.wait(5) on an Event nobody sets returns after five
\* seconds; elapsed += 5
WaitFive ==
    /\ waiting.pc = "wait"
    /\ waiting.elapsed + poll_seconds <= MaxElapsed
    /\ waiting' = [waiting EXCEPT !.elapsed = @ + poll_seconds, !.waits = @ + 1, !.pc = "test"]
    /\ UNCHANGED <<cpu_count, gov_call, gpu, MAX_WORKERS, pool, segment, run>>
    /\ UNCHANGED <<breakerVars, worker, race, searchVars, histVars>>

InitWait ==
    /\ StoreAtRest
    /\ PipelineAtRest

NextWait ==
    \/ \E t \in WaitTimeouts : BeginWait(t)
    \/ \E c \in CpuReadings, m \in MemoryPercents : LoopTest(c, m)
    \/ WaitFive

\* the thread inside wait_for_resources keeps running: both the usage reading
\* (psutil.cpu_percent(interval=1)) and the wait on the Event return
WaitRuns == (\E c \in CpuReadings, m \in MemoryPercents : LoopTest(c, m)) \/ WaitFive

(* wait_for_resources called once, with the system throttled or not at each poll. *)
SpecWait == InitWait /\ [][NextWait]_vars /\ WF_vars(WaitRuns)

\* C23 as stated: the call returns after at most timeout/5 waits.
C23_AsStated ==
    waiting.pc = "returned" => waiting.waits * poll_seconds <= waiting.timeout

\* what holds at every moment of a call: elapsed is five times the waits; a
\* wait was begun only below the timeout, so there are at most
\* ceil(timeout / 5) of them (60 at 300 seconds); a wait follows only a poll
\* that read "throttle", so a poll that reads "no throttle" ends the call.
WaitIsBounded ==
    /\ waiting.elapsed = waiting.waits * 5
    /\ waiting.waits > 0 => (waiting.waits - 1) * 5 < waiting.timeout
    /\ waiting.timeout = 300 => waiting.waits <= 60
    /\ waiting.pc = "wait" => waiting.throttled
    /\ (waiting.pc = "returned" /\ ~waiting.throttled) => waiting.polls = waiting.waits + 1
    /\ waiting.polls <= waiting.waits + 1

\* C23: wait_for_resources never blocks forever: every call returns, after at
\* most ceil(timeout / 5) waits of five seconds (60 at the default 300
\* seconds) even when should_throttle is true at every poll, and with no
\* further wait once a poll finds should_throttle false.
C23_BoundedWait ==
    /\ []WaitIsBounded
    /\ (waiting.pc # "idle") ~> (waiting.pc = "returned")

\* C23 witness: a call with the default timeout that was throttled at every
\* poll has returned after 60 waits.
C23_Witness ==
    /\ waiting.pc = "returned"
    /\ waiting.timeout = 300
    /\ waiting.throttled
    /\ waiting.waits = 60
    /\ waiting.polls = 61

(* ---------------- GPUDetector: detection and the encoder arguments ---------------- *)

\* the dicts the _detect_* methods return (lines 31-38, 51-56, 72-77, 94-101)
\* and the one for no accelerator (lines 19, 60, 81, 105)
CpuInfo == [available |-> FALSE, type |-> "cpu", encoder |-> "none"]
NvidiaInfo == [available |-> TRUE, type |-> "nvidia", encoder |-> "h264_nvenc"]
VaapiInfo == [available |-> TRUE, type |-> "vaapi", encoder |-> "h264_vaapi"]
VideotoolboxInfo == [available |-> TRUE, type |-> "videotoolbox", encoder |-> "h264_videotoolbox"]
\* a gpu_info no _detect_* method returns: the attribute can be assigned
OtherInfos ==
    { [available |-> TRUE, type |-> "amf", encoder |-> "h264_amf"],
      [available |-> TRUE, type |-> "cpu", encoder |-> "none"],
      [available |-> FALSE, type |-> "nvidia", encoder |-> "h264_nvenc"] }

\* a probe is one subprocess.run with timeout=5: the command answers with what
\* the test looks for ("found"), with return code 0 and other output
\* ("blank"), with another return code ("nonzero"), cannot be started
\* ("raises") or runs into the timeout ("timeout": TimeoutExpired is raised)
ProbeRaised(o) == o \in {"raises", "timeout"}

\* mutant: a probe's exception is not caught
ProbeEscapes_unhandled(o) == ProbeRaised(o)

\* lines 39-40, 57-58, 78-79, 102-103: except: pass
ProbeEscapes(o) == FALSE

\* _detect_linux_gpu, lines 21-60: nvidia-smi, then vainfo
detect_linux_gpu(probes) ==
    IF probes.nvidia = "found" THEN [gpu_info |-> NvidiaInfo, raised |-> FALSE]
    ELSE IF ProbeEscapes(probes.nvidia) THEN [gpu_info |-> CpuInfo, raised |-> TRUE]
    ELSE IF probes.vaapi = "found" THEN [gpu_info |-> VaapiInfo, raised |-> FALSE]
    ELSE IF ProbeEscapes(probes.vaapi) THEN [gpu_info |-> CpuInfo, raised |-> TRUE]
    ELSE [gpu_info |-> CpuInfo, raised |-> FALSE]

\* _detect_macos_gpu, lines 62-81: system_profiler
detect_macos_gpu(probes) ==
    IF probes.profiler = "found" THEN [gpu_info |-> VideotoolboxInfo, raised |-> FALSE]
    ELSE IF ProbeEscapes(probes.profiler) THEN [gpu_info |-> CpuInfo, raised |-> TRUE]
    ELSE [gpu_info |-> CpuInfo, raised |-> FALSE]

\* _detect_windows_gpu, lines 83-105: nvidia-smi
detect_windows_gpu(probes) ==
    IF probes.nvidia = "found" THEN [gpu_info |-> NvidiaInfo, raised |-> FALSE]
    ELSE IF ProbeEscapes(probes.nvidia) THEN [gpu_info |-> CpuInfo, raised |-> TRUE]
    ELSE [gpu_info |-> CpuInfo, raised |-> FALSE]

\* detect_gpu, lines 9-19
detect_gpu(system, probes) ==
    CASE system = "Linux" -> detect_linux_gpu(probes)
      [] system = "Darwin" -> detect_macos_gpu(probes)
      [] system = "Windows" -> detect_windows_gpu(probes)
      [] OTHER -> [gpu_info |-> CpuInfo, raised |-> FALSE]

\* mutant: an accelerator type the lookup does not know gets the nvidia arguments
get_ffmpeg_encoding_args_default_nvenc(info, crf, preset) ==
    IF ~info.available THEN <<"-c:v", "libx264", "-preset", preset, "-crf", crf>>
    ELSE IF info.type = "videotoolbox" THEN <<"-c:v", "h264_videotoolbox", "-b:v", "5M">>
    ELSE IF info.type = "vaapi" THEN <<"-c:v", "h264_vaapi", "-qp", crf>>
    ELSE <<"-c:v", "h264_nvenc", "-preset", "p4", "-rc", "vbr", "-cq", crf, "-b:v", "0">>

\* get_ffmpeg_encoding_args, lines 107-141 (resolution is not used)
get_ffmpeg_encoding_args(info, crf, preset) ==
    IF ~info.available THEN <<"-c:v", "libx264", "-preset", preset, "-crf", crf>>
    ELSE IF info.type = "nvidia"
         THEN <<"-c:v", "h264_nvenc", "-preset", "p4", "-rc", "vbr", "-cq", crf, "-b:v", "0">>
    ELSE IF info.type = "videotoolbox" THEN <<"-c:v", "h264_videotoolbox", "-b:v", "5M">>
    ELSE IF info.type = "vaapi" THEN <<"-c:v", "h264_vaapi", "-qp", crf>>
    ELSE <<"-c:v", "libx264", "-preset", preset, "-crf", crf>>

\* GPUDetector(): __init__ runs detect_gpu on the platform, the probes answer
NewGPUDetector(system, probes) ==
    /\ gpu.pc = "none"
    /\ LET d == detect_gpu(system, probes)
       IN gpu' = [gpu EXCEPT !.pc = IF d.raised THEN "raised" ELSE "detected",
                             !.system = system, !.probe = probes,
                             !.gpu_info = d.gpu_info, !.raised = d.raised]
    /\ UNCHANGED <<cpu_count, gov_call, waiting, MAX_WORKERS, pool, segment, run>>
    /\ UNCHANGED <<breakerVars, worker, race, searchVars, histVars>>

\* gpu_info is assigned from outside the detector
AssignGpuInfo(info) ==
    /\ gpu.pc = "detected"
    /\ gpu' = [gpu EXCEPT !.pc = "assigned", !.gpu_info = info, !.asked = FALSE, !.args = <<>>]
    /\ UNCHANGED <<cpu_count, gov_call, waiting, MAX_WORKERS, pool, segment, run>>
    /\ UNCHANGED <<breakerVars, worker, race, searchVars, histVars>>

\* a call of get_ffmpeg_encoding_args(resolution, crf, preset)
GetFfmpegEncodingArgs(crf, preset) ==
    /\ gpu.pc \in {"detected", "assigned"}
    /\ gpu' = [gpu EXCEPT !.asked = TRUE, !.args = get_ffmpeg_encoding_args(gpu.gpu_info, crf, preset)]
    /\ UNCHANGED <<cpu_count, gov_call, waiting, MAX_WORKERS, pool, segment, run>>
    /\ UNCHANGED <<breakerVars, worker, race, searchVars, histVars>>

InitGpu ==
    /\ StoreAtRest
    /\ PipelineAtRest

NextGpu ==
    \/ \E sys \in Systems, n \in ProbeOutcomes, v \in ProbeOutcomes, p \in ProbeOutcomes :
          NewGPUDetector(sys, [nvidia |-> n, vaapi |-> v, profiler |-> p])
    \/ \E info \in OtherInfos : AssignGpuInfo(info)
    \/ \E crf \in Crfs, preset \in Presets : GetFfmpegEncodingArgs(crf, preset)

(* One detector on any platform with any probe outcomes, then asked for arguments. *)
SpecGpu == InitGpu /\ [][NextGpu]_vars

\* the probes the platform runs (none on a platform the detector does not know)
ProbesRun(g) ==
    CASE g.system = "Linux" -> {g.probe.nvidia, g.probe.vaapi}
      [] g.system = "Darwin" -> {g.probe.profiler}
      [] g.system = "Windows" -> {g.probe.nvidia}
      [] OTHER -> {}
SoftwareProfile(args) ==
    /\ Len(args) = 6
    /\ args[1] = "-c:v" /\ args[2] = "libx264" /\ args[3] = "-preset" /\ args[5] = "-crf"

\* C30: detection never raises; when no probe that ran found an accelerator
\* (each failed, raised or timed out) gpu_info is the cpu capability; and
\* get_ffmpeg_encoding_args returns the libx264 profile whenever gpu_info
\* says no accelerator is available or has a type other than nvidia, vaapi
\* and videotoolbox.
C30_DetectionNonFatalSoftwareFallback ==
    /\ ~gpu.raised /\ gpu.pc # "raised"
    /\ (gpu.pc = "detected" /\ "found" \notin ProbesRun(gpu))
          => (gpu.gpu_info.type = "cpu" /\ ~gpu.gpu_info.available)
    /\ (gpu.asked /\ (~gpu.gpu_info.available
                        \/ gpu.gpu_info.type \notin {"nvidia", "vaapi", "videotoolbox"}))
          => SoftwareProfile(gpu.args)

\* C30 witness: on Linux nvidia-smi could not be started and vainfo timed
\* out; the detector reports cpu and was given the libx264 arguments.
C30_Witness ==
    /\ gpu.pc = "detected"
    /\ gpu.system = "Linux" /\ gpu.probe.nvidia = "raises" /\ gpu.probe.vaapi = "timeout"
    /\ gpu.gpu_info = CpuInfo
    /\ gpu.asked /\ SoftwareProfile(gpu.args)

(* ---------------- the segment pipeline: process_segment and the pool ---------------- *)

oldVars == <<breakerVars, worker, race, api_tracking, provider, changes, searches, histVars>>

\* a segment of the transcript: its text is the query, its duration decides
\* prefer_video; then the history of what process_segment did with it
NewSegment(q, d) ==
    [pc |-> "unsubmitted", query |-> q, duration |-> d, url |-> None, clip |-> "none",
     why |-> "none", image |-> FALSE, printed |-> {}, slot |-> 0, trail |-> <<>>,
     missed |-> FALSE]

\* process_segment, line 290: prefer_video=(duration > 15)
video_seconds == 15
PreferVideo(sg) == sg.duration > video_seconds

\* download_media, lines 230-234: the hash of the file downloaded from a URL
\* (the same URL gives the same bytes); 0 is the hash of no file
TextNo(q) == CHOOSE n \in 1..Len(SegmentTexts) : SegmentTexts[n] = q
UrlHash(url) ==
    CASE url.source = "nasa" -> 10 + TextNo(url.query)
      [] url.source = "pixabay" -> 20 + TextNo(url.query)
      [] url.source = "pexels" -> 30 + TextNo(url.query)
      [] url.source = "unsplash" -> 40 + TextNo(url.query)
      [] url.source = "giphy" -> 50 + TextNo(url.query)
      [] OTHER -> 0

\* the segments being processed by a thread of the pool
Running == {i \in DOMAIN segment : segment[i].pc \notin {"unsubmitted", "queued", "done", "failed"}}
Finished == {i \in DOMAIN segment : segment[i].pc \in {"done", "failed"}}

\* mutant: the row found is not used, the segment is searched for
OnLookup_searches(sg, hit, exists) ==
    [sg EXCEPT !.pc = "search", !.missed = ~hit]

\* process_segment, line 280: if cached_media and os.path.exists(local_path)
OnLookup(sg, hit, exists) ==
    IF hit /\ exists THEN [sg EXCEPT !.pc = "cached_clip", !.printed = @ \cup {"cache_hit"}]
                     ELSE [sg EXCEPT !.pc = "search", !.missed = ~hit]

\* process_segment, lines 278-280: get_cached_media(query) and the test of
\* the local file of the row found
Lookup(i, exists) ==
    /\ segment[i].pc = "lookup"
    /\ LET first == CacheFirst(media_cache, segment[i].query, now)
       IN IF first = {}
          THEN /\ segment' = [segment EXCEPT ![i] = OnLookup(@, FALSE, exists)]
               /\ UNCHANGED media_cache
          ELSE \E m \in first :
                  /\ media_cache' = CacheTouch(media_cache, m, now)
                  /\ segment' = [segment EXCEPT ![i] = OnLookup(@, TRUE, exists)]
    /\ UNCHANGED <<cpu_count, gov_call, waiting, gpu, MAX_WORKERS, pool, run>>
    /\ UNCHANGED oldVars

\* lines 282-288: apply_ken_burns on the cached file; return True, or except: pass
CachedClip(i, ok) ==
    /\ segment[i].pc = "cached_clip"
    /\ segment' = [segment EXCEPT ![i].pc = IF ok THEN "done" ELSE "search",
                                  ![i].clip = IF ok THEN "cached" ELSE @]
    /\ UNCHANGED <<cpu_count, gov_call, waiting, gpu, MAX_WORKERS, pool, run>>
    /\ UNCHANGED <<oldVars, media_cache>>

\* line 292: if url / else
OnSearchResult(sg, url) ==
    IF url = None THEN [sg EXCEPT !.pc = "fallback_image", !.why = "no_asset"]
                  ELSE [sg EXCEPT !.pc = "download", !.url = url]

\* line 290: search_with_fallback followed to its result only. Its lookup of
\* the cache (api_manager.py, lines 76-78) is made; the loop over the
\* providers, which the search section follows step by step, is cut to what
\* it comes to: the URL of an asset of the first source, or None.
SearchReturns(i, found) ==
    /\ segment[i].pc = "search"
    /\ LET sg == segment[i]
           first == CacheFirst(media_cache, sg.query, now)
       IN IF first = {}
          THEN /\ segment' = [segment EXCEPT ![i] =
                                OnSearchResult(sg, IF found
                                                   THEN ProviderUrl(SearchOrder(PreferVideo(sg))[1], sg.query)
                                                   ELSE None)]
               /\ UNCHANGED media_cache
          ELSE \E m \in first :
                  /\ media_cache' = CacheTouch(media_cache, m, now)
                  /\ segment' = [segment EXCEPT ![i] = OnSearchResult(sg, m.media_url)]
    /\ UNCHANGED <<cpu_count, gov_call, waiting, gpu, MAX_WORKERS, pool, run>>
    /\ UNCHANGED oldVars

\* lines 333-334: except Exception as e: print(...), then the fallback
OnUrlFailure(sg) ==
    [sg EXCEPT !.pc = "fallback_image", !.why = "url_failed", !.printed = @ \cup {"url_failed"}]

\* lines 294-295: download_media(url, temp_file)
Download(i, ok) ==
    /\ segment[i].pc = "download"
    /\ segment' = [segment EXCEPT ![i] = IF ok THEN [@ EXCEPT !.pc = "encode"] ELSE OnUrlFailure(@)]
    /\ UNCHANGED <<cpu_count, gov_call, waiting, gpu, MAX_WORKERS, pool, run>>
    /\ UNCHANGED <<oldVars, media_cache>>

\* lines 297-311: ffmpeg on the download, or apply_ken_burns
Encode(i, ok) ==
    /\ segment[i].pc = "encode"
    /\ segment' = [segment EXCEPT ![i] =
                      IF ok THEN [@ EXCEPT !.pc = "save_select", !.clip = "asset"] ELSE OnUrlFailure(@)]
    /\ UNCHANGED <<cpu_count, gov_call, waiting, gpu, MAX_WORKERS, pool, run>>
    /\ UNCHANGED <<oldVars, media_cache>>

\* lines 313-331, save_media_cache lines 45-48: the select by file_hash
SegmentSaveSelect(i) ==
    /\ segment[i].pc = "save_select"
    /\ segment' = [segment EXCEPT ![i].pc =
                      IF CacheWithHash(media_cache, UrlHash(segment[i].url)) # {}
                      THEN "done" ELSE "save_insert"]
    /\ UNCHANGED <<cpu_count, gov_call, waiting, gpu, MAX_WORKERS, pool, run>>
    /\ UNCHANGED <<oldVars, media_cache>>

\* save_media_cache lines 50-64: the insert; an insert the store rejects
\* (file_hash declared unique and held by now) raises into line 333
SegmentSaveInsert(i, unique_hash) ==
    /\ segment[i].pc = "save_insert"
    /\ LET sg == segment[i]
           row == NewCacheRow(media_cache, sg.query, sg.url.source, UrlHash(sg.url),
                              default_quality_score, now)
       IN IF unique_hash /\ CacheWithHash(media_cache, UrlHash(sg.url)) # {}
          THEN /\ segment' = [segment EXCEPT ![i] = OnUrlFailure(sg)]
               /\ UNCHANGED media_cache
          ELSE /\ segment' = [segment EXCEPT ![i].pc = "done"]
               /\ media_cache' = media_cache \cup {row}
    /\ UNCHANGED <<cpu_count, gov_call, waiting, gpu, MAX_WORKERS, pool, run>>
    /\ UNCHANGED oldVars

\* create_fallback_image, lines 347-361: the placeholder is fetched from the
\* web; a failure is printed and swallowed, the file is then not written
CreateFallbackImage(i, fetched) ==
    /\ segment[i].pc = "fallback_image"
    /\ segment' = [segment EXCEPT ![i].pc = "fallback_clip", ![i].image = fetched]
    /\ UNCHANGED <<cpu_count, gov_call, waiting, gpu, MAX_WORKERS, pool, run>>
    /\ UNCHANGED <<oldVars, media_cache>>

\* lines 337 and 341: apply_ken_burns(fallback_image, ...), in no try block;
\* ffmpeg fails on a file that is not there
OnFallbackClip(sg, ok) ==
    IF sg.image /\ ok THEN [sg EXCEPT !.pc = "done", !.clip = "placeholder"]
                      ELSE [sg EXCEPT !.pc = "failed"]

FallbackClip(i, ok) ==
    /\ segment[i].pc = "fallback_clip"
    /\ segment' = [segment EXCEPT ![i] = OnFallbackClip(@, ok)]
    /\ UNCHANGED <<cpu_count, gov_call, waiting, gpu, MAX_WORKERS, pool, run>>
    /\ UNCHANGED <<oldVars, media_cache>>

\* mutant: the executor starts a thread for every segment submitted
MaySpawn_unbounded(threads, max_workers) == TRUE

\* ThreadPoolExecutor(max_workers=MAX_WORKERS): a thread is started on submit
\* while fewer than max_workers exist
MaySpawn(threads, max_workers) == threads < max_workers

\* generate_media_for_segments, line 366: the executor is made
EnterPool ==
    /\ run.pc = "media"
    /\ pool.pc = "none"
    /\ pool' = [NoPool EXCEPT !.pc = "submitting"]
    /\ UNCHANGED <<cpu_count, gov_call, waiting, gpu, MAX_WORKERS, segment, run>>
    /\ UNCHANGED <<oldVars, media_cache>>

\* lines 367-368: executor.submit(process_segment, i, seg, master_bar), in order
Submit ==
    /\ pool.pc = "submitting"
    /\ LET i == pool.next
       IN /\ segment' = [segment EXCEPT ![i].pc = "queued"]
          /\ pool' = [pool EXCEPT
                        !.queue = Append(@, i),
                        !.threads = IF MaySpawn(@, MAX_WORKERS) THEN @ + 1 ELSE @,
                        !.next = i + 1,
                        !.pc = IF i = Len(segment) THEN "collecting" ELSE "submitting"]
    /\ UNCHANGED <<cpu_count, gov_call, waiting, gpu, MAX_WORKERS, run>>
    /\ UNCHANGED <<oldVars, media_cache>>

\* a thread of the pool that has no segment takes the next one of the queue
Take ==
    /\ pool.queue # <<>>
    /\ Cardinality(Running) < pool.threads
    /\ segment' = [segment EXCEPT ![Head(pool.queue)].pc = "lookup"]
    /\ pool' = [pool EXCEPT !.queue = Tail(@)]
    /\ UNCHANGED <<cpu_count, gov_call, waiting, gpu, MAX_WORKERS, run>>
    /\ UNCHANGED <<oldVars, media_cache>>

\* mutant: the exception of a segment leaves the loop and the function
OnFuture_reraises(p, i, failed) ==
    IF failed THEN [p EXCEPT !.pc = "returned", !.raised = TRUE, !.queue = <<>>]
              ELSE [p EXCEPT !.collected = @ \cup {i}]

\* lines 370-374: future.result() in try / except Exception
OnFuture(p, i, failed) == [p EXCEPT !.collected = @ \cup {i}]

\* lines 370-374: as_completed hands over a future that is finished
Collect(i) ==
    /\ pool.pc = "collecting"
    /\ i \in Finished \ pool.collected
    /\ pool' = OnFuture(pool, i, segment[i].pc = "failed")
    /\ segment' = [segment EXCEPT ![i].printed =
                      IF segment[i].pc = "failed" THEN @ \cup {"segment_failed"} ELSE @]
    /\ UNCHANGED <<cpu_count, gov_call, waiting, gpu, MAX_WORKERS, run>>
    /\ UNCHANGED <<oldVars, media_cache>>

\* the with block is left (shutdown(wait=True)) once every future was handed over
LeavePool ==
    /\ pool.pc = "collecting"
    /\ pool.collected = DOMAIN segment
    /\ pool' = [pool EXCEPT !.pc = "returned"]
    /\ UNCHANGED <<cpu_count, gov_call, waiting, gpu, MAX_WORKERS, segment, run>>
    /\ UNCHANGED <<oldVars, media_cache>>

(* ---------------- __main__: the run and its render job ---------------- *)

\* __main__, lines 448-480: the current_step values, in order
Steps ==
    <<"fetching_news", "generating_script", "generating_narration", "transcribing",
      "processing_media", "building_video", "cleanup">>
\* the steps whose function can raise: fetch_articles (lines 111-121) and
\* generate_media_for_segments (lines 363-374) catch what their calls raise
RaisingSteps == {"generating_script", "generating_narration", "transcribing", "building_video", "cleanup"}

\* transcribe_segments, lines 203-228: the segments of the narration
SegmentText(i) == SegmentTexts[((i - 1) % 2) + 1]
Transcript == [i \in 1..NumSegments |-> NewSegment(SegmentText(i), 10)]

\* build_video, lines 388-418: ffmpeg reads clip1.mp4 .. clipN.mp4 and fails
\* on one that is not there
ClipsMissing == \E i \in DOMAIN segment : segment[i].clip = "none"

\* mutant: too little disk space is printed and the run goes on
OnDiskCheck_warns(r, enough) == [r EXCEPT !.pc = "create_job"]

\* lines 438-440: if not check_disk_space(...): print, exit(1)
OnDiskCheck(r, enough) ==
    IF enough THEN [r EXCEPT !.pc = "create_job"]
              ELSE [r EXCEPT !.pc = "exited", !.exit_code = 1]

\* line 438: resource_mgr.check_disk_space(required_gb=5.0)
MainCheckDisk(free) ==
    /\ run.pc = "main"
    /\ gov_call' = [op |-> "check_disk_space", min_workers |-> 0, max_workers |-> 0,
                    memory |-> 0, disk |-> free,
                    ret |-> IF check_disk_space(free, required_gb) THEN 1 ELSE 0]
    /\ run' = OnDiskCheck([run EXCEPT !.disk_checks = @ + 1], check_disk_space(free, required_gb))
    /\ UNCHANGED <<cpu_count, waiting, gpu, MAX_WORKERS, pool, segment>>
    /\ UNCHANGED <<oldVars, media_cache>>

\* lines 442-445, create_render_job: the row is inserted with status "pending"
MainCreateJob ==
    /\ run.pc = "create_job"
    /\ run' = [run EXCEPT !.job.status = "pending", !.pc = "set_processing"]
    /\ UNCHANGED <<cpu_count, gov_call, waiting, gpu, MAX_WORKERS, pool, segment>>
    /\ UNCHANGED <<oldVars, media_cache>>

\* line 448: update_render_job(status "processing", current_step "fetching_news")
MainSetProcessing ==
    /\ run.pc = "set_processing"
    /\ run' = [run EXCEPT !.job.status = "processing", !.job.current_step = Steps[1],
                          !.pc = "step", !.step = 1]
    /\ UNCHANGED <<cpu_count, gov_call, waiting, gpu, MAX_WORKERS, pool, segment>>
    /\ UNCHANGED <<oldVars, media_cache>>

\* a step returned: the next one is entered with update_render_job(current_step),
\* which leaves the status alone; after the last one, line 487 is reached
AfterStep(r) ==
    IF r.step = Len(Steps)
    THEN [r EXCEPT !.returned = Append(@, Steps[r.step]), !.pc = "complete"]
    ELSE [r EXCEPT !.returned = Append(@, Steps[r.step]), !.step = @ + 1,
                   !.job.current_step = Steps[r.step + 1],
                   !.pc = IF Steps[r.step + 1] = "processing_media" THEN "media" ELSE "step"]

\* lines 450-481: the function of the current step returns or raises
MainStep(raises) ==
    /\ run.pc = "step"
    /\ raises => Steps[run.step] \in RaisingSteps
    /\ (Steps[run.step] = "building_video" /\ ClipsMissing) => raises
    /\ run' = IF raises THEN [run EXCEPT !.pc = "handler"] ELSE AfterStep(run)
    /\ segment' = IF ~raises /\ Steps[run.step] = "transcribing" THEN Transcript ELSE segment
    /\ UNCHANGED <<cpu_count, gov_call, waiting, gpu, MAX_WORKERS, pool>>
    /\ UNCHANGED <<oldVars, media_cache>>

\* lines 472-474: generate_media_for_segments is back
MainMediaDone ==
    /\ run.pc = "media"
    /\ pool.pc = "returned"
    /\ run' = IF pool.raised THEN [run EXCEPT !.pc = "handler"] ELSE AfterStep(run)
    /\ UNCHANGED <<cpu_count, gov_call, waiting, gpu, MAX_WORKERS, pool, segment>>
    /\ UNCHANGED <<oldVars, media_cache>>

\* mutant: the job is marked completed when the media are processed
CompletesAt_media(r) == r.pc = "step" /\ Steps[r.step] = "building_video"

\* lines 487-493 are reached when cleanup_media has returned
CompletesAt(r) == r.pc = "complete"

\* lines 487-493: update_render_job(status "completed", ...)
MainComplete ==
    /\ CompletesAt(run)
    /\ run.job.status = "processing"
    /\ run' = [run EXCEPT !.job.status = "completed", !.pc = "done"]
    /\ UNCHANGED <<cpu_count, gov_call, waiting, gpu, MAX_WORKERS, pool, segment>>
    /\ UNCHANGED <<oldVars, media_cache>>

\* lines 499-505: except Exception: update_render_job(status "failed",
\* error_log [...]); raise
MainFail ==
    /\ run.pc = "handler"
    /\ run' = [run EXCEPT !.job.status = "failed",
                          !.job.error_log = Append(@, Steps[run.step]),
                          !.pc = "reraised", !.raised = TRUE]
    /\ UNCHANGED <<cpu_count, gov_call, waiting, gpu, MAX_WORKERS, pool, segment>>
    /\ UNCHANGED <<oldVars, media_cache>>

\* the module is imported: lines 32-35 build the clients, lines 66-69 compute
\* MAX_WORKERS with min_workers=2 and the configured max_workers
InitRun ==
    /\ StoreAtRest
    /\ waiting = NotWaiting
    /\ gpu = NoGpu
    /\ pool = NoPool
    /\ segment = <<>>
    /\ run = [NotRun EXCEPT !.pc = "main"]
    /\ \E m \in Machines :
          /\ cpu_count = m.cpus
          /\ gov_call = [op |-> "get_optimal_workers", min_workers |-> 2,
                         max_workers |-> m.max_workers, memory |-> m.memory, disk |-> 0,
                         ret |-> get_optimal_workers(m.cpus, m.memory, 2, m.max_workers)]
          /\ MAX_WORKERS = get_optimal_workers(m.cpus, m.memory, 2, m.max_workers)

NextRun ==
    \/ \E d \in RunDiskReadings : MainCheckDisk(d)
    \/ MainCreateJob
    \/ MainSetProcessing
    \/ \E raises \in BOOLEAN : MainStep(raises)
    \/ MainMediaDone
    \/ MainComplete
    \/ MainFail
    \/ EnterPool
    \/ Submit
    \/ Take
    \/ \E i \in DOMAIN segment : Collect(i)
    \/ LeavePool
    \/ \E i \in DOMAIN segment, exists \in BOOLEAN : Lookup(i, exists)
    \/ \E i \in DOMAIN segment, ok \in BOOLEAN : CachedClip(i, ok)
    \/ \E i \in DOMAIN segment, found \in BOOLEAN : SearchReturns(i, found)
    \/ \E i \in DOMAIN segment, ok \in BOOLEAN : Download(i, ok)
    \/ \E i \in DOMAIN segment, ok \in BOOLEAN : Encode(i, ok)
    \/ \E i \in DOMAIN segment : SegmentSaveSelect(i)
    \/ \E i \in DOMAIN segment, unique_hash \in BOOLEAN : SegmentSaveInsert(i, unique_hash)
    \/ \E i \in DOMAIN segment, fetched \in BOOLEAN : CreateFallbackImage(i, fetched)
    \/ \E i \in DOMAIN segment, ok \in BOOLEAN : FallbackClip(i, ok)

(* One run of the pipeline from the import of the module on. *)
SpecRun == InitRun /\ [][NextRun]_vars

\* C24: at no moment are more segments being processed than MAX_WORKERS, the
\* executor never has more threads than that, and MAX_WORKERS, computed when
\* the module is imported, never changes during the run.
C24_PoolBoundedByMaxWorkers ==
    /\ [](Cardinality(Running) <= MAX_WORKERS /\ pool.threads <= MAX_WORKERS)
    /\ [][MAX_WORKERS' = MAX_WORKERS]_vars

\* C24 witness: MAX_WORKERS segments are being processed while another waits
\* in the queue.
C24_Witness ==
    /\ Cardinality(Running) = MAX_WORKERS
    /\ pool.queue # <<>>

\* C25: generate_media_for_segments raises nothing, and it returns only when
\* every segment submitted has run to its end, done or failed, whichever of
\* them failed; a failed segment is printed and the others are left alone.
C25_NoCrossSegmentCancellation ==
    /\ ~pool.raised
    /\ pool.pc = "returned" =>
          /\ Finished = DOMAIN segment
          /\ pool.collected = DOMAIN segment
          /\ pool.queue = <<>>
          /\ \A i \in DOMAIN segment :
                /\ segment[i].pc = "failed" <=> "segment_failed" \in segment[i].printed
                /\ segment[i].pc = "done" => segment[i].clip # "none"
    /\ run.pc \in {"complete", "done"} => Finished = DOMAIN segment

\* C25 witness: the first segment failed, the two after it were processed to
\* their clips, and generate_media_for_segments has returned.
C25_Witness ==
    /\ pool.pc = "returned"
    /\ Len(segment) >= 3
    /\ segment[1].pc = "failed"
    /\ segment[2].pc = "done" /\ segment[2].clip = "asset"
    /\ segment[3].pc = "done" /\ segment[3].clip = "placeholder"

\* C26: a segment whose search gave no asset, or whose download or encode
\* failed after a URL was obtained, never makes the run fail: no run fails in
\* build_video for want of the clip of such a segment.
C26_SegmentFailureNeverFatal ==
    ~ /\ run.job.status = "failed"
      /\ run.job.error_log = <<"building_video">>
      /\ \E i \in DOMAIN segment :
            /\ segment[i].why \in {"no_asset", "url_failed"}
            /\ segment[i].clip = "none"

\* C27: the disk check is made once, before anything else; when it fails the
\* run ends with exit code 1 and no render job, no segment, no executor, no
\* search and no record of a provider call; it is not made again later.
C27_DiskCheckedOnceUpFront ==
    /\ run.disk_checks <= 1
    /\ run.pc # "main" => run.disk_checks = 1
    /\ (gov_call.op = "check_disk_space" /\ gov_call.ret = 0) =>
          /\ run.pc = "exited" /\ run.exit_code = 1
          /\ run.job.status = "none"
          /\ segment = <<>> /\ pool = NoPool
          /\ searches = 0 /\ api_tracking = <<>> /\ media_cache = {}
    /\ run.pc = "exited" => (gov_call.op = "check_disk_space" /\ gov_call.ret = 0)

\* C27 witness: with 4.5GB free the run has stopped at the disk check.
C27_Witness ==
    /\ run.pc = "exited"
    /\ gov_call.op = "check_disk_space" /\ gov_call.disk = 9
    /\ run.job.status = "none"

Range(f) == {f[x] : x \in DOMAIN f}
JobStatusMoves ==
    { <<"none", "pending">>, <<"pending", "processing">>,
      <<"processing", "completed">>, <<"processing", "failed">> }
JobLifecycle ==
    /\ run.job.status = "none" <=> run.pc \in {"main", "exited", "create_job"}
    /\ run.job.status = "pending" <=> run.pc = "set_processing"
    /\ run.job.status = "processing" <=> run.pc \in {"step", "media", "complete", "handler"}
    /\ run.job.status = "completed" <=> run.pc = "done"
    /\ run.job.status = "failed" <=> run.pc = "reraised"
    /\ run.pc = "done" => (run.returned = Steps /\ run.job.error_log = <<>> /\ ~run.raised)
    /\ run.pc = "reraised" =>
          (run.raised /\ Len(run.job.error_log) = 1 /\ run.job.error_log[1] \notin Range(run.returned))
    /\ run.pc = "step" => Len(run.returned) = run.step - 1

\* C28: the job is created pending, is processing from before the first step
\* on, is completed only when every step, cleanup last, has returned, is
\* failed with one error entry exactly when a step raised (the run then ends
\* raising), and its status changes only pending -> processing ->
\* completed or failed, never after that.
C28_JobStatusLifecycle ==
    /\ []JobLifecycle
    /\ [][run.job.status' # run.job.status
            => <<run.job.status, run.job.status'>> \in JobStatusMoves]_vars

\* C28 witness: the video build raised after the media were processed: the
\* job is failed with that error recorded, and the run has raised.
C28_Witness ==
    /\ run.job.status = "failed"
    /\ run.job.error_log = <<"building_video">>
    /\ "processing_media" \in Range(run.returned)
    /\ run.raised

(* ---------------- five segments through the pool, searches included ---------------- *)

\* five segments of ten seconds (prefer_video is False, the ordering starts
\* with nasa, then pixabay); the query of the fifth is the query of the first
ScenarioTexts == <<SegmentTexts[1], SegmentTexts[2], SegmentTexts[3], SegmentTexts[4], SegmentTexts[1]>>
ScenarioTranscript == [i \in 1..5 |-> NewSegment(ScenarioTexts[i], 10)]

\* what the providers respond: nasa has an asset for every query but the
\* fourth, on which the connection fails; pixabay has an asset for every query
ScenarioResponse(s, q) ==
    CASE s = "nasa" -> IF q = ScenarioTexts[4] THEN "network_error" ELSE "asset"
      [] s = "pixabay" -> "asset"
      [] OTHER -> "no_results"

\* process_segment, line 290: the thread of segment i enters
\* search_with_fallback(query, prefer_video=(duration > 15)); the frame of the
\* call is kept in the first free slot
SegmentSearchBegins(i) ==
    /\ segment[i].pc = "search"
    /\ \E w \in Workers :
          /\ worker[w].pc = "idle"
          /\ \A v \in 1..(w - 1) : worker[v].pc # "idle"
          /\ worker' = [worker EXCEPT ![w] = SearchFrame(segment[i].query, PreferVideo(segment[i]))]
          /\ segment' = [segment EXCEPT ![i].pc = "searching", ![i].slot = w]
    /\ searches' = searches + 1
    /\ UNCHANGED <<cpu_count, gov_call, waiting, gpu, MAX_WORKERS, pool, run>>
    /\ UNCHANGED <<breakerVars, race, api_tracking, media_cache, provider, changes, histVars>>

\* _search_source on the scenario's providers: one pass of retry_with_backoff
SegmentAttempt(i) ==
    /\ segment[i].pc = "searching"
    /\ LET w == segment[i].slot
       IN AttemptPass(w, ScenarioResponse(CurrentSource(worker[w]), worker[w].query))
    /\ UNCHANGED <<provider, changes>>

\* line 290 to 292: search_with_fallback returns to process_segment
SegmentSearchEnds(i) ==
    /\ segment[i].pc = "searching"
    /\ LET w == segment[i].slot
       IN /\ worker[w].pc = "returned"
          /\ segment' = [segment EXCEPT ![i] =
                            [OnSearchResult(@, worker[w].result) EXCEPT
                                !.trail = worker[w].trail, !.slot = 0]]
          /\ worker' = [worker EXCEPT ![w] = IdleWorker]
    /\ UNCHANGED <<cpu_count, gov_call, waiting, gpu, MAX_WORKERS, pool, run>>
    /\ UNCHANGED <<breakerVars, race, searchVars, histVars>>

\* the searches of the first three segments have returned their URL and the
\* fourth has not entered its search
BeforeFourthSearch ==
    /\ \A i \in 1..3 : segment[i].url # None
    /\ segment[4].pc \in {"unsubmitted", "queued", "lookup", "search"}

\* a failure of nasa is induced: record_failure("nasa"), five times in all
InducedFailure ==
    /\ BeforeFourthSearch
    /\ streak["nasa"] < failure_threshold
    /\ RecordFailure("nasa")

\* generate_media_for_segments is entered with the five segments; breaker,
\* call log and cache as constructed, two threads in the pool
InitScenario ==
    /\ StoreAtRest
    /\ cpu_count = 4
    /\ gov_call = NoGovCall
    /\ waiting = NotWaiting
    /\ gpu = NoGpu
    /\ MAX_WORKERS = 2
    /\ pool = NoPool
    /\ segment = ScenarioTranscript
    /\ run = [NotRun EXCEPT !.pc = "media", !.disk_checks = 1, !.step = 5,
                            !.job = [status |-> "processing", current_step |-> Steps[5],
                                     error_log |-> <<>>],
                            !.returned = SubSeq(Steps, 1, 4)]

NextScenario ==
    \/ EnterPool
    \/ Submit
    \/ Take
    \/ \E i \in DOMAIN segment : Collect(i)
    \/ LeavePool
    \/ \E i \in DOMAIN segment : Lookup(i, TRUE)
    \/ \E i \in DOMAIN segment : CachedClip(i, TRUE)
    \/ \E i \in DOMAIN segment : SegmentSearchBegins(i)
    \/ \E w \in Workers : GetCachedMedia(w)
    \/ \E w \in Workers : Gate(w)
    \/ \E w \in Workers : Health(w)
    \/ \E i \in DOMAIN segment : SegmentAttempt(i)
    \/ \E w \in Workers : Wake(w)
    \/ \E w \in Workers : Caught(w)
    \/ \E i \in DOMAIN segment : SegmentSearchEnds(i)
    \/ \E i \in DOMAIN segment : Download(i, TRUE)
    \/ \E i \in DOMAIN segment : Encode(i, TRUE)
    \/ \E i \in DOMAIN segment : SegmentSaveSelect(i)
    \/ \E i \in DOMAIN segment : SegmentSaveInsert(i, FALSE)
    \/ InducedFailure

(* The five segments from the entry of the pool to its return. *)
SpecScenario == InitScenario /\ [][NextScenario]_vars

\* the provider calls a segment's search made to source s
CallsTo(sg, s) == {k \in DOMAIN sg.trail : sg.trail[k].source = s /\ IsAttemptEvent(sg.trail[k])}
\* the search of the segment found the circuit of nasa open
FoundNasaOpen(sg) == sg.trail # <<>> /\ sg.trail[1] = [source |-> "nasa", event |-> "open"]
\* the segment took its clip from the cached file, without any search
HitTheCache(sg) == sg.clip = "cached" /\ sg.url = None /\ sg.trail = <<>>
\* the segment was served from the cache, by the lookup of process_segment or
\* by the lookup of search_with_fallback: no provider was consulted
ServedFromCache(sg) == sg.pc = "done" /\ sg.trail = <<>>
\* the pool is back and the five failures were induced
ScenarioPlayed == pool.pc = "returned" /\ streak["nasa"] = failure_threshold

\* C29 as stated: when the five segments are through and the five failures
\* were induced, segments 1-3 missed the cache and have nasa's URL, segment 4
\* called pixabay and never nasa, segment 5 hit the cache with no provider call
C29_AsStated ==
    ScenarioPlayed =>
        /\ \A i \in 1..3 : segment[i].missed /\ segment[i].url = ProviderUrl("nasa", ScenarioTexts[i])
        /\ CallsTo(segment[4], "nasa") = {}
        /\ segment[4].url = ProviderUrl("pixabay", ScenarioTexts[4])
        /\ ServedFromCache(segment[5])

\* C29: in the five-segment scenario, segments 1-3 miss the cache and end with
\* nasa's URL; a segment whose search finds nasa's circuit open (segment 4 once
\* the five failures are in) makes no call to nasa and takes pixabay's URL;
\* segment 5 hits the cache with no search and no provider call whenever its
\* lookup finds the row of segment 1, and otherwise is searched for like any
\* miss, without a provider call only if the search's own lookup finds the row
C29_ScenarioPerSegment ==
    /\ ScenarioPlayed =>
          \A i \in 1..3 : segment[i].missed /\ segment[i].url = ProviderUrl("nasa", ScenarioTexts[i])
    /\ \A i \in DOMAIN segment :
          /\ FoundNasaOpen(segment[i]) /\ segment[i].pc = "done" =>
                /\ CallsTo(segment[i], "nasa") = {}
                /\ segment[i].url = ProviderUrl("pixabay", segment[i].query)
          /\ ~segment[i].missed /\ segment[i].pc = "done" => HitTheCache(segment[i])
          /\ segment[i].missed /\ segment[i].pc = "done" =>
                /\ segment[i].clip = "asset"
                /\ segment[i].url # None
                /\ (segment[i].trail = <<>>) = (\A s \in Sources : CallsTo(segment[i], s) = {})
    /\ ScenarioPlayed /\ FoundNasaOpen(segment[4]) /\ ~segment[5].missed =>
          /\ segment[4].url = ProviderUrl("pixabay", ScenarioTexts[4])
          /\ HitTheCache(segment[5])

\* the scenario as described has happened: segment 4 skipped nasa for
\* pixabay, segment 5 took the cached file
C29_Witness ==
    /\ ScenarioPlayed
    /\ FoundNasaOpen(segment[4])
    /\ segment[4].url = ProviderUrl("pixabay", ScenarioTexts[4])
    /\ \A i \in 1..3 : Len(segment[i].trail) = 3
    /\ ~segment[5].missed
    /\ HitTheCache(segment[5])

(* ---------------- searches on a store whose call log is poor ---------------- *)

\* the run starts on the call log of earlier runs: nasa under the floor,
\* pixabay on it, pexels with nothing but failures that are about to leave
\* the window of get_api_health
InitRecovery ==
    /\ InitSearch
    /\ api_tracking = PoorLog
    /\ media_cache = {}

(* The searches of one worker, image and video, with time passing between them. *)
SpecRecovery == InitRecovery /\ [][NextSearch]_vars

\* the sources a search has reached so far
Reached(w) == {SearchOrder(worker[w].prefer_video)[j] : j \in 1..worker[w].idx}
InSearch(w) == worker[w].pc \notin {"idle", "cached"} /\ worker[w].idx >= 1
NoDuplicates(order) == \A j, k \in DOMAIN order : order[j] = order[k] => j = k

\* C31 as stated: the providers eligible are the same in both modes, so a
\* search never reaches a source outside the default list
C31_AsStated ==
    \A w \in SearchWorkers :
        InSearch(w) => CurrentSource(worker[w]) \in Range(SearchOrder(FALSE))

\* C31: the ordering of a search is fixed by prefer_video alone and has four
\* different sources, consulted in that order; the default is nasa, pixabay,
\* pexels, unsplash; the video ordering puts pixabay before nasa, keeps pexels
\* third and has giphy where the default has unsplash, so the two modes share
\* three providers, not four
C31_FixedOrderings ==
    \A w \in SearchWorkers :
        InSearch(w) =>
            LET order == SearchOrder(worker[w].prefer_video)
                trail == worker[w].trail
            IN /\ Len(order) = 4 /\ NoDuplicates(order)
               /\ \A k \in DOMAIN trail : trail[k].source \in Reached(w)
               /\ \A k, l \in DOMAIN trail :
                     k <= l => Pos(w, trail[k].source) <= Pos(w, trail[l].source)
               /\ ~worker[w].prefer_video => order = <<"nasa", "pixabay", "pexels", "unsplash">>
               /\ worker[w].prefer_video =>
                     /\ order[1] = "pixabay" /\ order[2] = "nasa" /\ order[3] = "pexels"
                     /\ order[4] = "giphy"
                     /\ Range(order) \cap Range(SearchOrder(FALSE)) = {"nasa", "pixabay", "pexels"}

\* a video search has come to its fourth source, giphy, after the three others
C31_Witness ==
    \E w \in SearchWorkers :
        /\ worker[w].prefer_video
        /\ worker[w].pc = "attempt"
        /\ worker[w].idx = 4
        /\ CurrentSource(worker[w]) = "giphy"
        /\ {worker[w].trail[k].source : k \in DOMAIN worker[w].trail} = {"pixabay", "nasa", "pexels", "giphy"}

(* ---------------- the keys of the media cache ---------------- *)

\* a run on an empty table: media are saved under queries and looked up by
\* queries that differ in letter case and in blanks
InitKeys ==
    /\ StoreAtRest
    /\ PipelineAtRest

NextKeys ==
    \/ \E q \in KeyQueries, h \in Hashes : SaveMediaCache(q, "nasa", h, default_quality_score)
    \/ \E q \in KeyQueries : LookupCachedMedia(q)

SpecKeys == InitKeys /\ [][NextKeys]_vars

\* the letters that are one letter in two cases
CasePairs == { <<"M", "m">>, <<"O", "o">> }
\* b is a with one letter in the other case
CaseEdit(a, b) ==
    /\ Len(a) = Len(b)
    /\ \E i \in DOMAIN a :
          /\ <<a[i], b[i]>> \in CasePairs \/ <<b[i], a[i]>> \in CasePairs
          /\ \A j \in DOMAIN a : j # i => a[j] = b[j]
\* b is a with one more blank at the start, at the end or next to a blank
BlankEdit(a, b) ==
    /\ Len(b) = Len(a) + 1
    /\ \E p \in DOMAIN b :
          /\ b[p] = " "
          /\ SubSeq(b, 1, p - 1) \o SubSeq(b, p + 1, Len(b)) = a
          /\ p = 1 \/ p = Len(b) \/ b[p - 1] = " " \/ b[p + 1] = " "
OneEdit(a, b) == CaseEdit(a, b) \/ BlankEdit(a, b) \/ BlankEdit(b, a)
\* the query a row was saved under, as it was given
SavedUnder(m) == m.media_url.query

\* C32: _normalize_query is idempotent; two queries that differ by the case of
\* a letter or by a blank at the start, at the end or in a run of blanks have
\* the same key; every row is stored under the key of the query it was saved
\* under; and a lookup finds the unexpired rows saved under any query of the
\* same key: it returns a row of that key whenever there is one
C32_NormalizedKeys ==
    /\ \A q \in KeyQueries : NormalizeQuery(NormalizeQuery(q)) = NormalizeQuery(q)
    /\ \A a, b \in KeyQueries : OneEdit(a, b) => NormalizeQuery(a) = NormalizeQuery(b)
    /\ \A m \in media_cache : m.query = NormalizeQuery(SavedUnder(m))
    /\ db_call.op = "get_cached_media" =>
          LET same == {m \in db_call.before :
                          /\ m.expires_at > db_call.at
                          /\ \/ OneEdit(SavedUnder(m), db_call.query)
                             \/ SavedUnder(m) = db_call.query}
          IN same # {} =>
                /\ db_call.ret # NoRow
                /\ \E m \in db_call.before :
                      /\ m.id = db_call.ret.id
                      /\ NormalizeQuery(SavedUnder(m)) = NormalizeQuery(db_call.query)

\* a row saved under "Mo" was returned by the lookup of " mo"
C32_Witness ==
    /\ db_call.op = "get_cached_media"
    /\ db_call.query = <<" ", "m", "o">>
    /\ db_call.ret # NoRow
    /\ \E m \in db_call.before :
          m.id = db_call.ret.id /\ SavedUnder(m) = <<"M", "o">> /\ m.query = <<"m", "o">>

(* ---------------- a saved query is found again ---------------- *)

\* the unexpired rows of the query of the call, in the table as it is now
RowsOfCallQuery == CacheMatches(media_cache, db_call.query, now)

\* C35 as stated: once save_media_cache(q, ...) has returned, the table holds
\* an unexpired row for q (the next lookup of q is a hit), whatever was cached
\* before
C35_AsStated == SaveCall => RowsOfCallQuery # {}

\* the rows that have not expired stay in the table, under their query
UnexpiredRowsStay ==
    \A m \in media_cache :
        m.expires_at >= now' =>
            \E n \in media_cache' :
                n.id = m.id /\ n.query = m.query /\ n.expires_at = m.expires_at

\* what the last call shows. A save with a hash the table did not hold leaves
\* a row for the query that expires 30 days later; a save with a hash the
\* table held leaves the table as it was, so the query has a row only if it
\* had one; a lookup of a query that has an unexpired row returns a row
SaveThenLookup ==
    /\ (SaveCall /\ CacheWithHash(db_call.before, db_call.hash) = {}) =>
          \E m \in RowsOfCallQuery :
              /\ m.file_hash = db_call.hash
              /\ m.expires_at = db_call.at + retention_days * DaySeconds
    /\ (SaveCall /\ CacheWithHash(db_call.before, db_call.hash) # {}) =>
          /\ media_cache = db_call.before
          /\ RowsOfCallQuery = CacheMatches(db_call.before, db_call.query, now)
    /\ (LookupCall /\ CacheMatches(db_call.before, db_call.query, db_call.at) # {}) =>
          /\ LookupHit
          /\ db_call.ret.query = NormalizeQuery(db_call.query)

\* C35: after save_media_cache(q, ..., file_hash) with a hash the table does
\* not hold yet, every get_cached_media(q) before the expiry of the row is a
\* hit, whatever other queries were cached before; when a row with that hash
\* is already stored (under any query), the save adds nothing and a later
\* lookup of q is a hit only if q had an unexpired row of its own before
C35_SavedUnlessHashStored == []SaveThenLookup /\ [][UnexpiredRowsStay]_vars

\* a row saved in this run, next to rows cached before, was returned by a
\* lookup made later
C35_Witness ==
    /\ LookupHit
    /\ db_call.ret \in NewRows(db_call.before)
    /\ db_call.at > db_call.ret.last_used_at
    /\ db_call.before \ NewRows(db_call.before) # {}

(* ---------------- the cache write after the clip ---------------- *)

\* C36: a segment whose clip was made from the acquired asset keeps it: once
\* download and encode have succeeded the segment is saving or done, it never
\* enters the fallback path and never fails because of the cache write
C36_ClipSurvivesCacheWriteFailure ==
    \A i \in DOMAIN segment :
        segment[i].clip = "asset" => segment[i].pc \in {"save_select", "save_insert", "done"}

(* ---------------- provider traffic and the breaker ---------------- *)

\* the call of the next attempt is about to be issued to the current source
AboutToCall(w) == worker[w].pc = "attempt"

\* C33: no provider call is issued to a source whose circuit is open: whenever
\* an attempt is about to be made, the first of a provider or a retry, the
\* source's count is below the threshold or its timeout has elapsed
C33_NoCallWhileOpen ==
    \A w \in SearchWorkers :
        AboutToCall(w) =>
            ~IsOpenRet(failures, last_failure_time, now, CurrentSource(worker[w]))

\* the search of worker w has just made an attempt
JustAttempted(w) == worker[w].trail # <<>> /\ IsAttemptEvent(Last(worker[w].trail))
\* the responses that make a provider call return None
EmptyResponses(s) == {r \in Responses : SearchOutcome(s, r) = "empty"}

\* C37: a provider call that returns None is a successful attempt: its record
\* has success = true, the source's failure count is 0 after it whatever it
\* was, it is not retried, and the search goes on with the next provider of
\* the ordering (or returns None after the last one)
C37_EmptyCountsAsSuccess ==
    \A w \in SearchWorkers :
        LET T == worker[w].trail
            wr == worker[w]
        IN /\ (JustAttempted(w) /\ provider[Last(T).source] \in EmptyResponses(Last(T).source)) =>
                 LET s == Last(T).source IN
                 /\ Last(T).event = "empty"
                 /\ Last(RowsOfSearch(w)).source = s
                 /\ Last(RowsOfSearch(w)).success
                 /\ failures[s] = 0
                 /\ ~IsOpenRet(failures, last_failure_time, now, s)
                 /\ wr.pc \in {"gate", "returned"}
                 /\ wr.pc = "gate" => Pos(w, CurrentSource(wr)) = Pos(w, s) + 1
                 /\ wr.pc = "returned" =>
                       wr.result = None /\ Pos(w, s) = Len(SearchOrder(wr.prefer_video))
           /\ \A i \in DOMAIN T :
                 T[i].event = "empty" =>
                    \A j \in (i + 1)..Len(T) : T[j].source # T[i].source

\* two attempts on a source failed, the third returned None: the count that
\* stood at 2 is 0 and the search is at the gate of the next provider
C37_Witness ==
    \E w \in SearchWorkers :
        LET A == AttemptsOf(w) IN
        /\ JustAttempted(w)
        /\ Len(A) = 3 /\ A[1].event = "fail" /\ A[2].event = "fail" /\ A[3].event = "empty"
        /\ A[1].source = A[3].source /\ A[2].source = A[3].source
        /\ failures[A[3].source] = 0
        /\ worker[w].pc = "gate"

(* ---------------- a search comes to its end ---------------- *)

\* a step of search_with_fallback: every call it makes returns (the store
\* answers, requests.get has timeout=10, time.sleep(delay) ends)
SearchRuns ==
    \E w \in SearchWorkers :
        \/ GetCachedMedia(w)
        \/ Gate(w)
        \/ Health(w)
        \/ \E r \in SearchResponses : Attempt(w, r)
        \/ Wake(w)
        \/ Caught(w)

NextTerminate ==
    \/ \E w \in SearchWorkers, q \in Queries : StartSearch(w, q, FALSE)
    \/ SearchRuns
    \/ \E w \in SearchWorkers : Finish(w)

(* Searches on an empty store, one right after the other, no search left *)
(* standing in the middle.                                               *)
SpecTerminate == InitResponses /\ [][NextTerminate]_vars /\ WF_vars(SearchRuns)

\* the gates and the attempts of source s in a trail
GatesOf(T, s) == {i \in DOMAIN T : T[i].source = s /\ T[i].event \in GateEvents}
CallsOf(T, s) == {i \in DOMAIN T : T[i].source = s /\ IsAttemptEvent(T[i])}
\* the search visits a provider at most once and calls it at most
\* max_retries times, so it makes at most 12 calls; what it returns is the
\* URL of a provider of its ordering, a cached URL or None, never an exception
TrafficIsBounded ==
    \A w \in SearchWorkers :
        LET T == worker[w].trail
            order == SearchOrder(worker[w].prefer_video)
        IN /\ \A s \in Sources : Cardinality(GatesOf(T, s)) <= 1
           /\ \A s \in Sources : Cardinality(CallsOf(T, s)) <= max_retries
           /\ \A s \in Sources \ Range(order) : CallsOf(T, s) = {}
           /\ Len(AttemptsOf(w)) <= 12
           /\ worker[w].pc = "returned" =>
                 /\ ~worker[w].raised
                 /\ \/ worker[w].result = None
                    \/ worker[w].result.source \in Range(order)
InTheSearch == \E w \in SearchWorkers : worker[w].pc \notin {"idle", "returned"}
SearchReturned == \E w \in SearchWorkers : worker[w].pc = "returned"

\* C34: every call of search_with_fallback returns, a URL or None, after at
\* most one visit and three attempts per provider of its ordering, twelve
\* attempts in all
C34_SearchTerminates == []TrafficIsBounded /\ (InTheSearch ~> SearchReturned)

\* all four providers were down: twelve attempts, then None
C34_Witness ==
    \E w \in SearchWorkers :
        /\ worker[w].pc = "returned"
        /\ worker[w].result = None
        /\ Len(AttemptsOf(w)) = 12
        /\ \A k \in 1..12 : AttemptsOf(w)[k].event = "fail"

(* ---------------- the health floor lifts ---------------- *)

\* the records of source s in the call log, whenever written
AllRows(s) == {i \in DOMAIN api_tracking : api_tracking[i].source = s}
\* the records of source s inside the window of the health check, now
RowsInWindow(s) == HealthRows(api_tracking, s, health_minutes, now)
\* the search of worker w has just checked the health of a source
JustChecked(w) == worker[w].trail # <<>> /\ Last(worker[w].trail).event \in HealthEvents

\* C39: a provider skipped for its success rate gets no call and no record
\* from the search that skipped it, it is skipped only while a failure of its
\* own is inside the 30-minute window, and as soon as the window holds no
\* record of it the health check passes (default 1.0) and the search calls it
C39_HealthFloorLifts ==
    \A w \in SearchWorkers :
        LET T == worker[w].trail
            R == RowsOfSearch(w)
        IN /\ \A i \in DOMAIN T :
                 T[i].event = "unhealthy" =>
                    /\ \A k \in DOMAIN R : R[k].source # T[i].source
                    /\ \A j \in DOMAIN T : T[j].source = T[i].source => ~IsAttemptEvent(T[j])
           /\ (JustChecked(w) /\ Last(T).event = "unhealthy") =>
                 \E k \in RowsInWindow(Last(T).source) : ~api_tracking[k].success
           /\ (JustChecked(w) /\ RowsInWindow(Last(T).source) = {}) =>
                 /\ Last(T).event = "healthy"
                 /\ worker[w].pc = "attempt"
                 /\ CurrentSource(worker[w]) = Last(T).source

\* pexels has nothing but failures on record; an earlier search of this run
\* went past it to unsplash without calling it; a minute later its records
\* have left the window and the search is about to call it
C39_Witness ==
    \E w \in SearchWorkers :
        /\ JustChecked(w)
        /\ Last(worker[w].trail) = [source |-> "pexels", event |-> "healthy"]
        /\ worker[w].pc = "attempt"
        /\ AllRows("pexels") # {}
        /\ \A k \in AllRows("pexels") : ~api_tracking[k].success /\ api_tracking[k].created_at < StartTime
        /\ RowsInWindow("pexels") = {}
        /\ \E k \in AllRows("unsplash") : api_tracking[k].created_at < StartTime + 45

(* ---------------- a failure recorded after the timeout, unchecked ---------------- *)

\* the last two calls are record_failure on s, the first one left the count at
\* or over the threshold, and the second came when the timeout of the first
\* had elapsed: no is_open came in between
FailureAfterTimeout(s) ==
    /\ FailureCallOn(last_call, s) /\ FailureCallOn(prev_call, s)
    /\ prev_call.before + 1 >= failure_threshold
    /\ last_call.at - prev_call.at >= timeout

\* C40: record_failure never resets the count, only is_open does: a failure
\* recorded when the count is at or over the threshold and the timeout has
\* elapsed, with no is_open in between, adds one to the count and sets the
\* last-failure time to the time of the call, and is_open is true from that
\* time for the whole timeout, not longer
C40_FailureAfterTimeoutReopens ==
    \A s \in Sources :
        /\ FailureCallOn(last_call, s) =>
              /\ failures[s] = (IF last_call.before = Absent THEN 0 ELSE last_call.before) + 1
              /\ last_failure_time[s] = last_call.at
        /\ FailureAfterTimeout(s) =>
              /\ failures[s] = prev_call.before + 2
              /\ failures[s] > failure_threshold
              /\ \A t \in last_call.at..(last_call.at + timeout - 1) :
                    IsOpenRet(failures, last_failure_time, t, s)
              /\ ~IsOpenRet(failures, last_failure_time, last_call.at + timeout, s)
              /\ IsOpenFailures(failures, last_failure_time, last_call.at + timeout - 1, s) = failures

\* the fifth failure, the timeout, then a sixth failure with no check in
\* between: the count is 6 and the circuit is open
C40_Witness ==
    \E s \in Sources :
        /\ FailureAfterTimeout(s)
        /\ prev_call.before = failure_threshold - 1
        /\ failures[s] = failure_threshold + 1
        /\ now = last_call.at
        /\ IsOpenRet(failures, last_failure_time, now, s)

(* ---------------- lookups of the media cache from the pool's threads ---------------- *)
(* process_segment and search_with_fallback call get_cached_media from every   *)
(* thread of the pool. A hit is two requests to the store, the select of line  *)
(* 26 and the update of lines 30-33, and another thread's requests may be      *)
(* served between them.                                                        *)

\* a thread enters get_cached_media(query)
BeginLookup(w, q) ==
    /\ worker[w].pc = "idle"
    /\ worker' = [worker EXCEPT ![w] = [IdleWorker EXCEPT !.pc = "lookup_select", !.query = q]]
    /\ UNCHANGED <<breakerVars, race, searchVars>>
    /\ UNCHANGED <<histVars, pipelineVars>>

\* get_cached_media, lines 21-28: the select; the first row, if any, is read
\* into media, its use_count with it
LookupSelect(w) ==
    /\ worker[w].pc = "lookup_select"
    /\ LET first == CacheFirst(media_cache, worker[w].query, now)
       IN IF first = {}
          THEN worker' = [worker EXCEPT ![w].pc = "lookup_done", ![w].looked = TRUE]
          ELSE \E m \in first :
                  worker' = [worker EXCEPT ![w].pc = "lookup_update", ![w].looked = TRUE,
                                           ![w].matches = {m}, ![w].idx = m.id,
                                           ![w].tmp = m.use_count]
    /\ UNCHANGED <<breakerVars, race, searchVars>>
    /\ UNCHANGED <<histVars, pipelineVars>>

\* get_cached_media, lines 30-35: update({"last_used_at": now, "use_count":
\* media["use_count"] + 1}).eq("id", media["id"]), then return media
LookupUpdate(w) ==
    /\ worker[w].pc = "lookup_update"
    /\ media_cache' =
          {IF m.id = worker[w].idx
           THEN [m EXCEPT !.last_used_at = now, !.use_count = worker[w].tmp + 1]
           ELSE m : m \in media_cache}
    /\ worker' = [worker EXCEPT ![w].pc = "lookup_done"]
    /\ UNCHANGED <<breakerVars, race, api_tracking, provider, changes, searches>>
    /\ UNCHANGED <<histVars, pipelineVars>>

NextLookupRace ==
    \/ \E w \in Workers, q \in StoreQueries : BeginLookup(w, q)
    \/ \E w \in Workers : LookupSelect(w)
    \/ \E w \in Workers : LookupUpdate(w)
    \/ \E d \in StoreTicks : StoreTick(d)

(* One get_cached_media per thread, on the rows of earlier runs. *)
SpecLookupRace == InitCache /\ [][NextLookupRace]_vars

\* the lookups that hit the row of an id and are over
HitsOn(id) == {w \in Workers : worker[w].pc = "lookup_done" /\ worker[w].matches # {} /\ worker[w].idx = id}
\* the use_count the row of an id had when the run started
StoredUses(id) ==
    CHOOSE u \in 0..MaxUseCount : \E c \in InitStoreCaches : \E m \in c : m.id = id /\ m.use_count = u
NoLookupInFlight == \A w \in Workers : worker[w].pc \in {"idle", "lookup_done"}

\* C38: once the lookups of the threads are over, the use_count of every row
\* is what it was plus the number of lookups that hit it
C38_ExactUseCount ==
    NoLookupInFlight =>
        \A m \in media_cache : m.use_count = StoredUses(m.id) + Cardinality(HitsOn(m.id))

====
